---------------------------- MODULE Spec2Model ----------------------------
(***************************************************************************)
(* Model of the SmartThings <-> HomeKit bridge:                           *)
(*   - capability resolution (MultiServiceAccessory.addComponent),        *)
(*   - the per-device command/status synchronizer (refreshStatus,         *)
(*     sendCommands, waitFor) on the single-threaded Node.js event loop,  *)
(*   - the OAuth token store, refresh monitor and 401 interceptor.        *)
(***************************************************************************)
EXTENDS Integers, Sequences, FiniteSets, TLC

VARIABLES
    \* ---- capability resolution (multiServiceAccessory.ts) ----
    config,             \* platform.config feature gates read by addComponent
    deviceIsTelevision, \* result of TelevisionService.isTelevisionDevice(device)
    components,         \* MultiServiceAccessory.components (componentId, capabilities)
    services,           \* MultiServiceAccessory.services (adapters, in creation order)
    lastEvent,          \* the last pushed event and the adapter it was handed to
    registered,         \* what discoverDevices did with the device
    capabilitiesToCover, \* addComponent's working set while its rule loop runs
    lastRule,           \* position of the combination rule the loop tested last
    \* ---- device synchronizer (multiServiceAccessory.ts) ----
    now,                    \* Date.now()
    online,                 \* MultiServiceAccessory.online
    deviceStatusTimestamp,  \* statusFetchedAt
    failureCount,           \* consecutiveFailures
    giveUpTime,             \* offlineSince
    commandInProgress,
    lastCommandCompleted,
    statusQueryInProgress,
    lastStatusResult,
    componentStatus,        \* component.status: the id of the fetch that wrote it (0: {})
    callers,                \* the pending/last call of each caller of the device
    microtasks,             \* promise continuations queued in the running turn
    statusGet,              \* the status GET in flight (id 0: none)
    fetchSeq,               \* number of status GETs issued so far
    failedRun,              \* history: consecutive failed status fetches
    cacheOvertaken,         \* history: the cached snapshot predates a completed command
    getDuringCommand,       \* history: a status GET was issued during a command
    \* ---- polling and device health (multiServiceAccessory.ts) ----
    healthCheck,            \* checkDeviceHealth of the constructor: "pending" or "done"
    probes,                 \* health probes of the poll timer in flight
    webhookMode,            \* platform.config.WebhookToken is set
    tickParity,             \* history: flips at every poll tick
    targetRead,             \* the getTargetState() promise of the last poll tick
    unhandledRejection,     \* history: a rejected promise had no handler
    offlineAt,              \* history: when online last became false (0: never)
    commandCompletedAt,     \* history: when a command last completed (0: never)
    commandWhileOffline,    \* history: a command was posted while online was false
    offlineTransitions,     \* history: offline transitions caused by status failures
    \* ---- token store and authorization (auth.ts, tokenManager.ts, platform.ts) ----
    authTime,           \* Date.now(), in seconds
    tokenData,          \* TokenManager.tokenData
    tokenFile,          \* contents of smartthings_tokens.json
    initialize,         \* SmartThingsAuth.initialize(): position and return value
    monitorRefreshes,   \* refresh calls of checkAndRefreshTokens in flight
    requests,           \* remote calls made through platform.axInstance
    authFlowStarted,    \* startAuthFlow has been called
    tokenCalls,         \* calls made to the token endpoint
    issued,             \* newest token the token endpoint has issued
    refreshOutcome,     \* history: the refresh call that completed last
    launch,             \* didFinishLaunching: "pending", "recovered" or "running"
    refreshTimer,       \* TokenManager.refreshTimer is set
    crashRecords,       \* crash records within the window at startup
    refreshDue,         \* history: a monitor tick found the token due, record not yet replaced
    monitorTrail,       \* history: refresh tokens the monitor used and failed with
    bootstrap,          \* config holds oauth_access_token and oauth_refresh_token
    loaded,             \* history: tokenData after each run of the constructor
    callback,           \* history: the last OAuth callback and its answer
    discovery           \* didFinishLaunching from withRetry(getOnlineDevices) on

resolverVars ==
    <<config, deviceIsTelevision, components, services, lastEvent, registered,
      capabilitiesToCover, lastRule>>

deviceVars ==
    <<online, deviceStatusTimestamp, failureCount, giveUpTime, commandInProgress,
      lastCommandCompleted, statusQueryInProgress, lastStatusResult, componentStatus>>

historyVars == <<fetchSeq, failedRun, cacheOvertaken, getDuringCommand>>

pollHistory == <<offlineAt, commandCompletedAt, commandWhileOffline, offlineTransitions>>

targetVars == <<targetRead, unhandledRejection>>

pollVars == <<healthCheck, probes, webhookMode, tickParity, targetVars, pollHistory>>

syncVars == <<now, deviceVars, callers, microtasks, statusGet, historyVars, pollVars>>

startupVars == <<launch, refreshTimer, crashRecords>>

loadVars == <<bootstrap, loaded>>

authVars ==
    <<authTime, tokenData, tokenFile, initialize, monitorRefreshes, requests,
      authFlowStarted, tokenCalls, issued, refreshOutcome, startupVars, refreshDue,
      monitorTrail, loadVars, discovery, callback>>

vars == <<resolverVars, syncVars, authVars>>

Range(s) == {s[i] : i \in DOMAIN s}

-----------------------------------------------------------------------------
(* Bounds of the resolver inputs *)

MaxCaps == 3          \* largest enumerated capability set of a component
MaxComponents == 1    \* components added to one device

\* Capabilities the enumerated sets are drawn from.
CapUniverse ==
    {"switch", "switchLevel", "fanSpeed", "audioVolume", "battery",
     "samsungce.airConditionerLighting"}

\* Capability sets of typical whole devices, larger than MaxCaps.
DeviceProfiles ==
    { {"switch", "airConditionerMode", "airConditionerFanMode",
       "thermostatCoolingSetpoint", "temperatureMeasurement",
       "fanOscillationMode", "relativeHumidityMeasurement", "switchLevel"},
      {"temperatureMeasurement", "thermostatMode", "thermostatHeatingSetpoint",
       "thermostatCoolingSetpoint", "relativeHumidityMeasurement"},
      {"temperatureMeasurement", "thermostatHeatingSetpoint", "battery"},
      {"switch", "audioVolume", "audioMute", "tvChannel",
       "samsungvd.mediaInputSource", "refresh"},
      {"windowShade", "windowShadeLevel", "switchLevel", "battery"},
      {"switch", "valve", "colorControl", "colorTemperature"} }

CapSets ==
    {S \in SUBSET CapUniverse : Cardinality(S) <= MaxCaps} \cup DeviceProfiles

ComponentIds == {"main", "sub"}

-----------------------------------------------------------------------------
(* Tables of MultiServiceAccessory *)

\* Object.keys(capabilityMap): insertion order of the object literal.
capabilityMap ==
    << [capability |-> "doorControl", service |-> "DoorService"],
       [capability |-> "lock", service |-> "LockService"],
       [capability |-> "absoluteweather46907.lock", service |-> "ZigbangSmartDoorlockService"],
       [capability |-> "switch", service |-> "SwitchService"],
       [capability |-> "windowShadeLevel", service |-> "WindowCoveringService"],
       [capability |-> "windowShade", service |-> "WindowCoveringService"],
       [capability |-> "motionSensor", service |-> "MotionService"],
       [capability |-> "waterSensor", service |-> "LeakDetectorService"],
       [capability |-> "smokeDetector", service |-> "SmokeDetectorService"],
       [capability |-> "carbonMonoxideDetector", service |-> "CarbonMonoxideDetectorService"],
       [capability |-> "presenceSensor", service |-> "OccupancySensorService"],
       [capability |-> "temperatureMeasurement", service |-> "TemperatureService"],
       [capability |-> "relativeHumidityMeasurement", service |-> "HumidityService"],
       [capability |-> "illuminanceMeasurement", service |-> "LightSensorService"],
       [capability |-> "contactSensor", service |-> "ContactSensorService"],
       [capability |-> "button", service |-> "StatelessProgrammableSwitchService"],
       [capability |-> "battery", service |-> "Battery"],
       [capability |-> "valve", service |-> "ValveService"],
       [capability |-> "samsungce.airConditionerLighting", service |-> "ACLightingService"] >>

\* An entry without optionalCapabilities is read as `entry.optionalCapabilities || []`.
comboCapabilityMap ==
    << [capabilities |-> <<"switch", "airConditionerMode", "airConditionerFanMode",
                           "thermostatCoolingSetpoint", "temperatureMeasurement">>,
        optionalCapabilities |-> <<"fanOscillationMode", "relativeHumidityMeasurement",
                                   "custom.airConditionerOptionalMode">>,
        service |-> "AirConditionerService"],
       [capabilities |-> <<"switch", "fanSpeed", "switchLevel">>,
        optionalCapabilities |-> <<>>, service |-> "FanSwitchLevelService"],
       [capabilities |-> <<"switch", "fanSpeed">>,
        optionalCapabilities |-> <<>>, service |-> "FanSpeedService"],
       [capabilities |-> <<"switch", "switchLevel">>,
        optionalCapabilities |-> <<>>, service |-> "LightService"],
       [capabilities |-> <<"switch", "colorControl">>,
        optionalCapabilities |-> <<>>, service |-> "LightService"],
       [capabilities |-> <<"switch", "colorTemperature">>,
        optionalCapabilities |-> <<>>, service |-> "LightService"],
       [capabilities |-> <<"switch", "valve">>,
        optionalCapabilities |-> <<>>, service |-> "ValveService"],
       [capabilities |-> <<"temperatureMeasurement", "thermostatMode",
                           "thermostatHeatingSetpoint", "thermostatCoolingSetpoint">>,
        optionalCapabilities |-> <<>>, service |-> "ThermostatService"],
       [capabilities |-> <<"temperatureMeasurement", "thermostatHeatingSetpoint">>,
        optionalCapabilities |-> <<>>, service |-> "ThermostatService"],
       [capabilities |-> <<"windowShade", "windowShadeLevel">>,
        optionalCapabilities |-> <<>>, service |-> "WindowCoveringService"],
       [capabilities |-> <<"windowShade", "switchLevel">>,
        optionalCapabilities |-> <<>>, service |-> "WindowCoveringService"] >>

\* TelevisionService.getTvCapabilities() (the class is not among the sources).
TvCapabilities ==
    {"switch", "audioVolume", "audioMute", "tvChannel",
     "mediaInputSource", "samsungvd.mediaInputSource"}

\* VolumeSliderService.getVolumeSliderCapabilities() (not among the sources).
VolumeSliderCapabilities == {"audioVolume", "audioMute"}

\* VolumeSliderService.supportsVolumeSlider(capabilities) (not among the sources).
supportsVolumeSlider(capabilities) == "audioVolume" \in capabilities

-----------------------------------------------------------------------------
(* comboCapabilityMap.sort((a, b) => a.capabilities.length >                *)
(*                                   b.capabilities.length ? -1 : 1)        *)

\* A comparator that puts the smaller required sets first.
comboCompareAscending(a, b) ==
    IF Len(a.capabilities) < Len(b.capabilities) THEN -1 ELSE 1

comboCompare(a, b) ==
    IF Len(a.capabilities) > Len(b.capabilities) THEN -1 ELSE 1

\* Insert x into the sorted sequence s: x moves left past every element it
\* compares below (comparator < 0), and stays right of the others.
RECURSIVE InsertSorted(_, _)
InsertSorted(s, x) ==
    IF s = <<>> THEN <<x>>
    ELSE IF comboCompare(x, s[Len(s)]) < 0
         THEN Append(InsertSorted(SubSeq(s, 1, Len(s) - 1), x), s[Len(s)])
         ELSE Append(s, x)

RECURSIVE SortCombos(_, _)
SortCombos(table, n) ==
    IF n = 0 THEN <<>> ELSE InsertSorted(SortCombos(table, n - 1), table[n])

sortedComboCapabilityMap == SortCombos(comboCapabilityMap, Len(comboCapabilityMap))

-----------------------------------------------------------------------------
(* registerServiceIfMatchesCapabilities: state is [services, capabilitiesToCover] *)

Adapter(componentId, capabilities, service) ==
    [componentId |-> componentId, capabilities |-> capabilities, service |-> service]

\* A registration that creates the adapter but returns the working set unreduced.
registerServiceKeepsCovered(st, componentId, capabilities, optionalCapabilities, serviceConstructor) ==
    IF ~(capabilities \subseteq st.capabilitiesToCover)
    THEN st
    ELSE LET allCapabilities ==
                 capabilities \cup (optionalCapabilities \cap st.capabilitiesToCover)
         IN [services |-> Append(st.services,
                                 Adapter(componentId, allCapabilities, serviceConstructor)),
             capabilitiesToCover |-> st.capabilitiesToCover]

registerServiceIfMatchesCapabilities(st, componentId, capabilities, optionalCapabilities, serviceConstructor) ==
    IF ~(capabilities \subseteq st.capabilitiesToCover)
    THEN st
    ELSE LET allCapabilities ==
                 capabilities \cup (optionalCapabilities \cap st.capabilitiesToCover)
         IN [services |-> Append(st.services,
                                 Adapter(componentId, allCapabilities, serviceConstructor)),
             capabilitiesToCover |-> st.capabilitiesToCover \ allCapabilities]

-----------------------------------------------------------------------------
(* addComponent *)

\* The volume-slider part of the television block (lines 317-340).
volumeSliderBlock(st, cfg, componentId, capabilities) ==
    LET volumeSliderCapabilities == VolumeSliderCapabilities \cap capabilities
    IN IF cfg.registerVolumeSlider /\ componentId = "main"
          /\ supportsVolumeSlider(capabilities)
          /\ volumeSliderCapabilities # {}
       THEN [services |-> Append(st.services,
                  Adapter(componentId, volumeSliderCapabilities, "VolumeSliderService")),
             capabilitiesToCover |-> st.capabilitiesToCover \ volumeSliderCapabilities]
       ELSE st

\* A television block that never hands 'switch' back to the working set.
televisionBlockDropsSwitch(st, cfg, isTelevision, componentId, capabilities) ==
    LET tvCapabilities == TvCapabilities \cap capabilities
    IN IF cfg.enableTelevisionService /\ componentId = "main" /\ isTelevision
          /\ tvCapabilities # {}
       THEN volumeSliderBlock(
                [services |-> Append(st.services,
                     Adapter(componentId, tvCapabilities, "TelevisionService")),
                 capabilitiesToCover |-> st.capabilitiesToCover \ tvCapabilities],
                cfg, componentId, capabilities)
       ELSE st

\* The television block (lines 268-344).
televisionBlock(st, cfg, isTelevision, componentId, capabilities) ==
    LET tvCapabilities == TvCapabilities \cap capabilities
    IN IF cfg.enableTelevisionService /\ componentId = "main" /\ isTelevision
          /\ tvCapabilities # {}
       THEN LET removed == st.capabilitiesToCover \ tvCapabilities
                kept == IF cfg.removeLegacySwitchForTV /\ "switch" \in tvCapabilities
                        THEN removed
                        ELSE IF "switch" \in tvCapabilities
                             THEN removed \cup {"switch"}
                             ELSE removed
            IN volumeSliderBlock(
                   [services |-> Append(st.services,
                        Adapter(componentId, tvCapabilities, "TelevisionService")),
                    capabilitiesToCover |-> kept],
                   cfg, componentId, capabilities)
       ELSE st

\* A combination pass that applies no rule.
comboPassSkipped(st, table, i, componentId) == st

\* The combination pass (lines 348-359), over the sorted table.
RECURSIVE comboPass(_, _, _, _)
comboPass(st, table, i, componentId) ==
    IF i > Len(table) THEN st
    ELSE comboPass(
             registerServiceIfMatchesCapabilities(st, componentId,
                 Range(table[i].capabilities), Range(table[i].optionalCapabilities),
                 table[i].service),
             table, i + 1, componentId)

\* A single-capability pass that applies no rule.
singlePassSkipped(st, cfg, i, componentId) == st

\* The single-capability pass (lines 361-378).
RECURSIVE singlePass(_, _, _, _)
singlePass(st, cfg, i, componentId) ==
    IF i > Len(capabilityMap) THEN st
    ELSE LET capability == capabilityMap[i].capability
         IN IF capability = "samsungce.airConditionerLighting"
               /\ ~cfg.ExposeACDisplayLight
            THEN singlePass(st, cfg, i + 1, componentId)
            ELSE singlePass(
                     registerServiceIfMatchesCapabilities(st, componentId,
                         {capability}, {}, capabilityMap[i].service),
                     cfg, i + 1, componentId)

addComponent(svcs, cfg, isTelevision, componentId, capabilities) ==
    LET st0 == [services |-> svcs, capabilitiesToCover |-> capabilities]
        st1 == televisionBlock(st0, cfg, isTelevision, componentId, capabilities)
        st2 == comboPass(st1, sortedComboCapabilityMap, 1, componentId)
        st3 == singlePass(st2, cfg, 1, componentId)
    IN st3

-----------------------------------------------------------------------------
(* Device synchronizer: state *)

StalenessWindow == 5000   \* refreshStatus: Date.now() - deviceStatusTimestamp > 5000
FailureThreshold == 5     \* refreshStatus: failureCount >= 5

StartTime == 1000000      \* Date.now() when the accessory is constructed
MaxElapsed == 5001        \* the clock stops this long after StartTime
MaxCallers == 2           \* callers (adapters, handlers) with a call pending at once
MaxFetches == 5           \* status GETs issued in one behaviour

ClockSteps == {2500, 5001}
Callers == 1..MaxCallers

PollQuietTime == 20000    \* startPollingState: Date.now() - lastCommandCompleted < 20 * 1000
RecoveryDelay == 600000   \* startPollingState: Date.now() - giveUpTime > 10 * 60 * 1000

MaxPollFetches == 6       \* status GETs issued by the poll timer in one behaviour
MaxPollElapsed == 600001  \* the clock of the polling behaviours stops this long after StartTime

PollClockSteps == {RecoveryDelay \div 2, RecoveryDelay + 1}
Poller == 1               \* the getValue call of the poll timer
Commander == 2            \* an adapter sending commands
HealthStates == {"ONLINE", "OFFLINE", "error"}

IdleCaller ==
    [op |-> "none", pc |-> "idle", result |-> FALSE, forced |-> FALSE,
     expected |-> "none", seen |-> 0, get |-> 0, calledAt |-> 0,
     posts |-> 0, postOk |-> "none"]

NoGet == [id |-> 0, owner |-> 0, cmds |-> {}, overtaken |-> FALSE]

BoolName(b) == IF b THEN "true" ELSE "false"

\* Field initialisers of MultiServiceAccessory (lines 161-170); health tells
\* whether the health check of the constructor has been answered.
SyncStartOf(health, webhook, pending) ==
    /\ now = StartTime
    /\ online = TRUE
    /\ deviceStatusTimestamp = 0
    /\ failureCount = 0
    /\ giveUpTime = 0
    /\ commandInProgress = FALSE
    /\ lastCommandCompleted = 0
    /\ statusQueryInProgress = FALSE
    /\ lastStatusResult = TRUE
    /\ componentStatus = 0
    /\ callers = [c \in pending |-> IdleCaller]
    /\ microtasks = <<>>
    /\ statusGet = NoGet
    /\ fetchSeq = 0
    /\ failedRun = 0
    /\ cacheOvertaken = FALSE
    /\ getDuringCommand = FALSE
    /\ healthCheck = health
    /\ probes = 0
    /\ webhookMode = webhook
    /\ tickParity = FALSE
    /\ targetRead = "none"
    /\ unhandledRejection = FALSE
    /\ offlineAt = 0
    /\ commandCompletedAt = 0
    /\ commandWhileOffline = FALSE
    /\ offlineTransitions = 0

SyncStart(health, webhook) == SyncStartOf(health, webhook, Callers)

\* An accessory whose health check was answered ONLINE, polled by timer.
SyncIdle == SyncStart("done", FALSE)

-----------------------------------------------------------------------------
(* Token store and authorization: state. Times are in seconds. *)

REFRESH_BEFORE_EXPIRY == 300      \* 5 * 60 * 1000 ms
REFRESH_CHECK_INTERVAL == 60      \* 60 * 1000 ms
RefreshTokenWindow == 2592000     \* 30 * 24 * 60 * 60 * 1000 ms

MaxRequests == 2       \* remote calls made in one behaviour
MaxTokenCalls == 3     \* calls to the token endpoint in one behaviour
MaxAuthElapsed == 180  \* the monitor stops ticking this long after StartTime

Lifetimes == {300, 420}    \* expires_in of a token, in seconds
Requests == 1..MaxRequests
Statuses == {200, 401, 500}

\* tokenData === null; access_token / refresh_token 0 stand for a missing field.
NoToken ==
    [access_token |-> 0, refresh_token |-> 0, expires_at |-> 0,
     refresh_token_expires_at |-> 0]

\* What loadTokens can find in the token file at startup.
TokenFiles ==
    {NoToken} \cup
    [access_token : {1}, refresh_token : {0, 1},
     expires_at : {StartTime + l : l \in Lifetimes},
     refresh_token_expires_at : {StartTime, StartTime + RefreshTokenWindow}]

NewRequest ==
    [pc |-> "idle", _retry |-> FALSE, refreshes |-> 0, retries |-> 0,
     unauthorized |-> 0, refreshResult |-> "none", startedAuth |-> FALSE]

NoRefresh == [n |-> 0, path |-> "none", ok |-> FALSE, token |-> 0]

\* History of the monitor: the refresh token of its last refresh call, and the
\* refresh tokens its refresh calls have failed with.
NoTrail == [used |-> 0, failed |-> {}]

\* loadTokens, lines 88-101: the tokens of the OAuth wizard in the config.
ConfigToken ==
    [access_token |-> 1, refresh_token |-> 1, expires_at |-> StartTime + 86400,
     refresh_token_expires_at |-> StartTime + RefreshTokenWindow]

\* What the constructor leaves in memory and on disk: the file as found; or
\* the tokens of the config, saved to the file unless the write failed.
LoadedTokens ==
    {[memory |-> f, file |-> f] : f \in TokenFiles}
    \cup {[memory |-> ConfigToken, file |-> f] : f \in {ConfigToken, NoToken}}

MaxCrashRecords == 3   \* crash records found in the window at startup
CrashThreshold == 3    \* defaultCrashLoopConfig: records that make a crash loop

\* CrashLoopManager.isCrashLoopDetected.
isCrashLoopDetected(records) == records >= CrashThreshold

\* No OAuth callback has been handled.
NoCallback ==
    [code |-> FALSE, state |-> "missing", expected |-> "null", status |-> 0,
     replaced |-> FALSE]

\* The handler has not reached device discovery.
NoDiscovery ==
    [pc |-> "none", attempt |-> 0, errors |-> <<>>, delays |-> <<>>, appended |-> 0]

AuthStart(memory, file, crashes) ==
    /\ discovery = NoDiscovery
    /\ authTime = StartTime
    /\ tokenData = memory
    /\ tokenFile = file
    /\ initialize = [pc |-> "start", authFlowStarted |-> FALSE]
    /\ monitorRefreshes = 0
    /\ requests = [r \in Requests |-> NewRequest]
    /\ authFlowStarted = FALSE
    /\ tokenCalls = 0
    /\ issued = 1
    /\ refreshOutcome = NoRefresh
    /\ launch = "pending"
    /\ refreshTimer = TRUE
    /\ crashRecords = crashes
    /\ refreshDue = FALSE
    /\ monitorTrail = NoTrail
    /\ callback = NoCallback

AuthIdleWith(file) ==
    /\ AuthStart(file, file, 0)
    /\ bootstrap = FALSE
    /\ loaded = <<file>>

AuthIdle == AuthIdleWith(NoToken)

-----------------------------------------------------------------------------
(* Resolver specification: a device is built by createAccessoryObject, which *)
(* calls addComponent once per component of the device.                      *)

ConfigSpace ==
    [enableTelevisionService : BOOLEAN, removeLegacySwitchForTV : BOOLEAN,
     registerVolumeSlider : BOOLEAN, ExposeACDisplayLight : BOOLEAN]

\* No event has been pushed; to = 0 stands for no adapter.
NoEvent == [componentId |-> "none", capability |-> "none", to |-> 0]

InitResolver ==
    /\ config \in ConfigSpace
    /\ deviceIsTelevision \in BOOLEAN
    /\ components = <<>>
    /\ services = <<>>
    /\ lastEvent = NoEvent
    /\ registered = "unknown"
    /\ capabilitiesToCover = {}
    /\ lastRule = 0
    /\ SyncIdle
    /\ AuthIdle

AddComponent(componentId, capabilities) ==
    /\ Len(components) < MaxComponents
    /\ \A i \in DOMAIN components : components[i].componentId # componentId
    /\ components' = Append(components,
                            [componentId |-> componentId, capabilities |-> capabilities])
    /\ services' = addComponent(services, config, deviceIsTelevision,
                                componentId, capabilities).services
    /\ UNCHANGED <<config, deviceIsTelevision, lastEvent, registered,
                   capabilitiesToCover, lastRule, syncVars, authVars>>

NextResolver ==
    \E componentId \in ComponentIds, capabilities \in CapSets :
        AddComponent(componentId, capabilities)

SpecResolver == InitResolver /\ [][NextResolver]_vars

-----------------------------------------------------------------------------
(* discoverDevices *)

\* The components of a device as the platform reports them.
ComponentRecords == [componentId : ComponentIds, capabilities : CapSets]

Devices ==
    {d \in UNION {[1..n -> ComponentRecords] : n \in 1..MaxComponents} :
        \A i, j \in DOMAIN d : i # j => d[i].componentId # d[j].componentId}

\* MultiServiceAccessory.capabilitySupported, lines 386-404.
capabilitySupported(capability) ==
    \/ \E i \in DOMAIN capabilityMap : capabilityMap[i].capability = capability
    \/ capability \in TvCapabilities
    \/ capability \in VolumeSliderCapabilities

\* findSupportedCapability, platform.ts 370-386.
findSupportedCapability(device) ==
    \E i \in DOMAIN device :
        \E capability \in device[i].capabilities : capabilitySupported(capability)

\* createAccessoryObject, platform.ts 388-406: addComponent for the first n
\* components of the device.
RECURSIVE createAccessoryObject(_, _, _, _)
createAccessoryObject(device, cfg, isTelevision, n) ==
    IF n = 0 THEN <<>>
    ELSE addComponent(createAccessoryObject(device, cfg, isTelevision, n - 1), cfg,
                      isTelevision, device[n].componentId,
                      device[n].capabilities).services

\* discoverDevices, platform.ts 319-368, for one device.
DiscoverDevice(device) ==
    /\ registered = "unknown"
    /\ components = <<>>
    /\ IF findSupportedCapability(device)
       THEN /\ registered' = "registered"
            /\ components' = device
            /\ services' = createAccessoryObject(device, config, deviceIsTelevision,
                                                 Len(device))
       ELSE /\ registered' = "skipped"
            /\ UNCHANGED <<components, services>>
    /\ UNCHANGED <<config, deviceIsTelevision, lastEvent, capabilitiesToCover,
                   lastRule, syncVars, authVars>>

NextDiscovery == \E device \in Devices : DiscoverDevice(device)

SpecDiscovery == InitResolver /\ [][NextDiscovery]_vars

-----------------------------------------------------------------------------
(* processEvent *)

\* The adapters an event matches: same component, capability among theirs.
matchingServices(svcs, componentId, capability) ==
    {i \in DOMAIN svcs : /\ svcs[i].componentId = componentId
                          /\ capability \in svcs[i].capabilities}

findLast(svcs, componentId, capability) ==
    LET found == matchingServices(svcs, componentId, capability)
    IN IF found = {} THEN 0 ELSE CHOOSE i \in found : \A j \in found : j <= i

\* this.services.find(...), line 621: the first matching adapter (0: undefined).
find(svcs, componentId, capability) ==
    LET found == matchingServices(svcs, componentId, capability)
    IN IF found = {} THEN 0 ELSE CHOOSE i \in found : \A j \in found : i <= j

\* MultiServiceAccessory.processEvent, lines 618-628.
ProcessEvent(componentId, capability) ==
    /\ lastEvent' = [componentId |-> componentId, capability |-> capability,
                     to |-> find(services, componentId, capability)]
    /\ UNCHANGED <<config, deviceIsTelevision, components, services, registered,
                   capabilitiesToCover, lastRule, syncVars, authVars>>

NextEvents ==
    \/ \E componentId \in ComponentIds, capabilities \in CapSets :
           AddComponent(componentId, capabilities)
    \/ \E componentId \in ComponentIds, capability \in CapUniverse :
           ProcessEvent(componentId, capability)

SpecEvents == InitResolver /\ [][NextEvents]_vars

-----------------------------------------------------------------------------
(* The combination loop of addComponent, one rule per step                   *)

\* addComponent enters the loop (line 348) with the component's capabilities
\* as its working set; the television block is off for this component.
InitRegister ==
    /\ config = [enableTelevisionService |-> FALSE, removeLegacySwitchForTV |-> FALSE,
                 registerVolumeSlider |-> FALSE, ExposeACDisplayLight |-> FALSE]
    /\ deviceIsTelevision = FALSE
    /\ \E componentId \in ComponentIds, capabilities \in CapSets :
           /\ components = <<[componentId |-> componentId,
                              capabilities |-> capabilities]>>
           /\ capabilitiesToCover = capabilities
    /\ services = <<>>
    /\ lastEvent = NoEvent
    /\ registered = "unknown"
    /\ lastRule = 0
    /\ SyncIdle
    /\ AuthIdle

\* One iteration of the forEach at lines 350-359.
RegisterCombo ==
    /\ lastRule < Len(sortedComboCapabilityMap)
    /\ LET entry == sortedComboCapabilityMap[lastRule + 1]
           st == registerServiceIfMatchesCapabilities(
                     [services |-> services,
                      capabilitiesToCover |-> capabilitiesToCover],
                     components[1].componentId, Range(entry.capabilities),
                     Range(entry.optionalCapabilities), entry.service)
       IN /\ services' = st.services
          /\ capabilitiesToCover' = st.capabilitiesToCover
    /\ lastRule' = lastRule + 1
    /\ UNCHANGED <<config, deviceIsTelevision, components, lastEvent, registered,
                   syncVars, authVars>>

NextRegister == RegisterCombo

SpecRegister == InitRegister /\ [][NextRegister]_vars

ResolverIdle ==
    /\ config = [enableTelevisionService |-> TRUE, removeLegacySwitchForTV |-> FALSE,
                 registerVolumeSlider |-> FALSE, ExposeACDisplayLight |-> FALSE]
    /\ deviceIsTelevision = FALSE
    /\ components = <<>>
    /\ services = <<>>
    /\ lastEvent = NoEvent
    /\ registered = "unknown"
    /\ capabilitiesToCover = {}
    /\ lastRule = 0

-----------------------------------------------------------------------------
(* Device synchronizer: refreshStatus, sendCommands, waitFor on the event    *)
(* loop. A call's synchronous part is one step; the continuation of a       *)
(* waitFor that resolved at once is a microtask of the running turn; timer  *)
(* callbacks and responses are turns of their own, run with their           *)
(* microtasks, and start only when no microtask is pending.                 *)

cacheAlwaysStale(t, timestamp) == TRUE

\* refreshStatus, line 421.
cacheIsStale(t, timestamp) == t - timestamp > StalenessWindow

\* refreshStatus, line 431: the counter at the start of a fetch.
failureCountAtFetchStart(count) == 0

\* refreshStatus, lines 471-475.
exceededFailures(count) == count >= FailureThreshold

commandResultTrue(ok) == TRUE

\* sendCommands, lines 583 and 593: what the promise resolves with.
commandResult(ok) == ok

timestampAlwaysReset(ok, timestamp) == 0

\* sendCommands, line 581: the cache is invalidated on success only.
timestampAfterCommand(ok, timestamp) == IF ok THEN 0 ELSE timestamp

\* sendCommands, lines 577-579: the continuation of waitFor(!commandInProgress).
StartCommand(c) ==
    /\ commandInProgress' = TRUE
    /\ callers' = [callers EXCEPT ![c].pc = "posting", ![c].posts = @ + 1]
    /\ statusGet' = IF statusGet.id # 0
                    THEN [statusGet EXCEPT !.cmds = @ \cup {c}]
                    ELSE statusGet
    /\ commandWhileOffline' = (commandWhileOffline \/ ~online)
    /\ UNCHANGED <<now, online, deviceStatusTimestamp, failureCount, giveUpTime,
                   lastCommandCompleted, statusQueryInProgress, lastStatusResult,
                   componentStatus, historyVars, healthCheck, probes, webhookMode,
                   tickParity, targetVars, offlineAt, commandCompletedAt, offlineTransitions>>

\* refreshStatus, lines 432-434: the continuation of waitFor(commandInProgress === false).
StartStatusGet(c) ==
    /\ lastStatusResult' = TRUE
    /\ fetchSeq' = fetchSeq + 1
    /\ statusGet' = [id |-> fetchSeq + 1, owner |-> c, cmds |-> {}, overtaken |-> FALSE]
    /\ callers' = [callers EXCEPT ![c].pc = "getting", ![c].get = fetchSeq + 1]
    /\ getDuringCommand' = (getDuringCommand \/ commandInProgress)
    /\ UNCHANGED <<now, online, deviceStatusTimestamp, failureCount, giveUpTime,
                   commandInProgress, lastCommandCompleted, statusQueryInProgress,
                   componentStatus, failedRun, cacheOvertaken, pollVars>>

\* sendCommands, lines 574-577: the synchronous part, up to waitFor.
CallSendCommands(c) ==
    /\ callers[c].pc \in {"idle", "done"}
    /\ IF ~commandInProgress
       THEN /\ callers' = [callers EXCEPT ![c] =
                   [IdleCaller EXCEPT !.op = "send", !.pc = "ready", !.calledAt = now]]
            /\ microtasks' = Append(microtasks, c)
       ELSE /\ callers' = [callers EXCEPT ![c] =
                   [IdleCaller EXCEPT !.op = "send", !.pc = "waiting", !.calledAt = now]]
            /\ UNCHANGED microtasks
    /\ UNCHANGED <<now, deviceVars, statusGet, historyVars, pollVars, resolverVars,
                   authVars>>

\* refreshStatus, lines 418-432 and 480-482: the synchronous part. A forced
\* call is preceded by forceNextStatusRefresh (AirConditionerService.getDeviceStatus).
refreshStatus(c, force) ==
    /\ LET timestamp == IF force THEN 0 ELSE deviceStatusTimestamp
           call == [IdleCaller EXCEPT !.op = "refresh", !.forced = force,
                                      !.calledAt = now]
       IN /\ deviceStatusTimestamp' = timestamp
          /\ cacheOvertaken' = (cacheOvertaken /\ ~force)
          /\ IF cacheIsStale(now, timestamp)
             THEN IF statusQueryInProgress
                  THEN /\ callers' = [callers EXCEPT ![c] =
                              [call EXCEPT !.pc = "joined", !.expected = "pending"]]
                       /\ UNCHANGED <<microtasks, statusQueryInProgress, failureCount>>
                  ELSE /\ statusQueryInProgress' = TRUE
                       /\ failureCount' = failureCountAtFetchStart(failureCount)
                       /\ IF ~commandInProgress
                          THEN /\ callers' = [callers EXCEPT ![c] =
                                      [call EXCEPT !.pc = "ready"]]
                               /\ microtasks' = Append(microtasks, c)
                          ELSE /\ callers' = [callers EXCEPT ![c] =
                                      [call EXCEPT !.pc = "waiting"]]
                               /\ UNCHANGED microtasks
             ELSE /\ callers' = [callers EXCEPT ![c] =
                         [call EXCEPT !.pc = "done", !.result = TRUE,
                                      !.seen = componentStatus]]
                  /\ UNCHANGED <<microtasks, statusQueryInProgress, failureCount>>
    /\ UNCHANGED <<now, online, giveUpTime, commandInProgress, lastCommandCompleted,
                   lastStatusResult, componentStatus, statusGet, fetchSeq, failedRun,
                   getDuringCommand>>

\* A refreshStatus call of an adapter or handler.
CallRefreshStatus(c, force) ==
    /\ callers[c].pc \in {"idle", "done"}
    /\ fetchSeq < MaxFetches
    /\ refreshStatus(c, force)
    /\ UNCHANGED <<pollVars, resolverVars, authVars>>

\* The next promise continuation of the running turn.
RunMicrotask ==
    /\ microtasks # <<>>
    /\ microtasks' = Tail(microtasks)
    /\ IF callers[Head(microtasks)].op = "send"
       THEN StartCommand(Head(microtasks))
       ELSE StartStatusGet(Head(microtasks))
    /\ UNCHANGED <<resolverVars, authVars>>

\* waitFor, lines 607-614: the interval of a waiting sendCommands finds the
\* condition true; its continuation runs in the same turn.
CommandWaiterProceeds(c) ==
    /\ microtasks = <<>>
    /\ callers[c].op = "send" /\ callers[c].pc = "waiting"
    /\ ~commandInProgress
    /\ StartCommand(c)
    /\ UNCHANGED <<microtasks, resolverVars, authVars>>

\* waitFor: the interval of a fetch waiting for the command to finish.
StatusWaiterProceeds(c) ==
    /\ microtasks = <<>>
    /\ callers[c].op = "refresh" /\ callers[c].pc = "waiting"
    /\ commandInProgress = FALSE
    /\ StartStatusGet(c)
    /\ UNCHANGED <<microtasks, resolverVars, authVars>>

\* refreshStatus, line 426: the interval of a caller waiting for the fetch in
\* flight finds statusQueryInProgress false and resolves with lastStatusResult.
StatusJoinerResumes(c) ==
    /\ microtasks = <<>>
    /\ callers[c].pc = "joined"
    /\ ~statusQueryInProgress
    /\ callers' = [callers EXCEPT ![c].pc = "done", ![c].result = lastStatusResult,
                                  ![c].seen = componentStatus]
    /\ UNCHANGED <<now, deviceVars, microtasks, statusGet, historyVars, pollVars,
                   resolverVars, authVars>>

\* The response interceptor of the shared HTTP client (platform.ts 79-112): the
\* POST is answered 401, the request has no _retry mark yet, the token refresh
\* succeeds and the interceptor sends the request again. The promise of
\* axInstance.post stays pending.
CommandUnauthorized(c) ==
    /\ microtasks = <<>>
    /\ callers[c].pc = "posting"
    /\ callers[c].posts = 1
    /\ callers' = [callers EXCEPT ![c].posts = @ + 1]
    /\ UNCHANGED <<now, deviceVars, microtasks, statusGet, historyVars, pollVars,
                   resolverVars, authVars>>

\* sendCommands, lines 579-594: the POST completes.
CommandCompletes(c, ok) ==
    /\ microtasks = <<>>
    /\ callers[c].pc = "posting"
    /\ commandInProgress' = FALSE
    /\ callers' = [callers EXCEPT ![c].pc = "done", ![c].result = commandResult(ok),
                                  ![c].postOk = BoolName(ok)]
    /\ deviceStatusTimestamp' = timestampAfterCommand(ok, deviceStatusTimestamp)
    /\ commandCompletedAt' = now
    /\ cacheOvertaken' = (cacheOvertaken /\ ~ok)
    /\ statusGet' = IF statusGet.id # 0 /\ c \in statusGet.cmds
                    THEN [statusGet EXCEPT !.cmds = @ \ {c},
                                           !.overtaken = @ \/ ok]
                    ELSE statusGet
    /\ UNCHANGED <<now, online, failureCount, giveUpTime, lastCommandCompleted,
                   statusQueryInProgress, lastStatusResult, componentStatus, microtasks,
                   fetchSeq, failedRun, getDuringCommand, healthCheck, probes,
                   webhookMode, tickParity, targetVars, offlineAt, commandWhileOffline,
                   offlineTransitions, resolverVars, authVars>>

\* What the fetch in flight tells the callers that joined it (history).
JoinersLearn(cs, outcome) ==
    [c \in Callers |->
        IF cs[c].pc = "joined" /\ cs[c].expected = "pending"
        THEN [cs[c] EXCEPT !.expected = BoolName(outcome)]
        ELSE cs[c]]

\* refreshStatus, lines 434-453: the GET succeeds; hasComponents tells whether
\* the response holds a component of the device.
StatusSucceeds(hasComponents) ==
    /\ microtasks = <<>>
    /\ statusGet.id # 0
    /\ componentStatus' = IF hasComponents THEN statusGet.id ELSE componentStatus
    /\ deviceStatusTimestamp' = IF hasComponents THEN now ELSE deviceStatusTimestamp
    /\ cacheOvertaken' = IF hasComponents THEN statusGet.overtaken ELSE cacheOvertaken
    /\ statusQueryInProgress' = FALSE
    /\ callers' = JoinersLearn(
           [callers EXCEPT ![statusGet.owner].pc = "done",
                           ![statusGet.owner].result = TRUE,
                           ![statusGet.owner].seen = componentStatus'],
           TRUE)
    /\ statusGet' = NoGet
    /\ failedRun' = 0
    /\ UNCHANGED <<now, online, failureCount, giveUpTime, commandInProgress,
                   lastCommandCompleted, lastStatusResult, microtasks, fetchSeq,
                   getDuringCommand, pollVars, resolverVars, authVars>>

\* refreshStatus, lines 465-478: the GET fails.
StatusFails ==
    /\ microtasks = <<>>
    /\ statusGet.id # 0
    /\ failureCount' = failureCount + 1
    /\ IF exceededFailures(failureCount + 1)
       THEN /\ giveUpTime' = now
            /\ online' = FALSE
            /\ offlineAt' = IF online THEN now ELSE offlineAt
            /\ offlineTransitions' = offlineTransitions + 1
       ELSE UNCHANGED <<giveUpTime, online, offlineAt, offlineTransitions>>
    /\ statusQueryInProgress' = FALSE
    /\ lastStatusResult' = FALSE
    /\ callers' = JoinersLearn(
           [callers EXCEPT ![statusGet.owner].pc = "done",
                           ![statusGet.owner].result = FALSE,
                           ![statusGet.owner].seen = componentStatus],
           FALSE)
    /\ statusGet' = NoGet
    /\ failedRun' = failedRun + 1
    /\ UNCHANGED <<now, deviceStatusTimestamp, commandInProgress, lastCommandCompleted,
                   componentStatus, microtasks, fetchSeq, cacheOvertaken,
                   getDuringCommand, healthCheck, probes, webhookMode, tickParity, targetVars,
                   commandCompletedAt, commandWhileOffline, resolverVars, authVars>>

\* Time passes between turns.
Tick(d) ==
    /\ microtasks = <<>>
    /\ now + d <= StartTime + MaxElapsed
    /\ now' = now + d
    /\ UNCHANGED <<deviceVars, callers, microtasks, statusGet, historyVars, pollVars,
                   resolverVars, authVars>>

InitSync == ResolverIdle /\ SyncIdle /\ AuthIdle

-----------------------------------------------------------------------------
(* Polling and device health: actions *)

\* constructor, lines 208-212, and checkDeviceHealth, lines 214-230: the health
\* GET is answered with a state, or fails ("error"), which also records a
\* potential crash.
HealthCheckCompletes(state) ==
    /\ microtasks = <<>>
    /\ healthCheck = "pending"
    /\ healthCheck' = "done"
    /\ online' = (state = "ONLINE")
    /\ offlineAt' = IF online /\ state # "ONLINE" THEN now ELSE offlineAt
    /\ crashRecords' = IF state = "error" THEN crashRecords + 1 ELSE crashRecords
    /\ UNCHANGED <<now, deviceStatusTimestamp, failureCount, giveUpTime,
                   commandInProgress, lastCommandCompleted, statusQueryInProgress,
                   lastStatusResult, componentStatus, callers, microtasks, statusGet,
                   historyVars, probes, webhookMode, tickParity, targetVars, commandCompletedAt,
                   commandWhileOffline, offlineTransitions, callback, resolverVars, authTime,
                   tokenData, tokenFile, initialize, monitorRefreshes, requests,
                   authFlowStarted, tokenCalls, issued, refreshOutcome, launch,
                   refreshTimer, refreshDue, monitorTrail, loadVars, discovery>>

\* startPollingState, lines 525-527: no timer is created in webhook mode.
pollingDisabled(webhookToken) == webhookToken

\* startPollingState, line 532: the tick is dropped.
pollSkipped(inProgress, t, completed) == inProgress \/ t - completed < PollQuietTime

\* startPollingState, line 554: the health probe is due.
probeDue(t, giveUp) == giveUp > 0 /\ t - giveUp > RecoveryDelay

\* startPollingState, lines 530-565: the callback of the poll timer. getValue of
\* an adapter reads the status through refreshStatus; the air conditioner
\* adapter forces the refresh (webhookServer.ts 736-738). One getValue call of
\* the timer is pending at a time. The timers with a target state are those
\* of the air conditioner adapter (webhookServer.ts 286-293).
PollTick(force, hasTarget) ==
    /\ microtasks = <<>>
    /\ ~pollingDisabled(webhookMode)
    /\ tickParity' = ~tickParity
    /\ IF pollSkipped(commandInProgress, now, lastCommandCompleted)
       THEN UNCHANGED <<deviceVars, now, callers, microtasks, statusGet, historyVars,
                        probes, targetVars>>
       ELSE IF online
            THEN /\ callers[Poller].pc \in {"idle", "done"}
                 /\ targetRead = "none"
                 /\ fetchSeq < MaxPollFetches
                 /\ refreshStatus(Poller, force)
                 /\ targetRead' = IF hasTarget THEN "pending" ELSE "none"
                 /\ UNCHANGED <<probes, unhandledRejection>>
            ELSE /\ probes' = IF probeDue(now, giveUpTime) THEN probes + 1 ELSE probes
                 /\ UNCHANGED <<deviceVars, now, callers, microtasks, statusGet,
                                historyVars, targetVars>>
    /\ UNCHANGED <<healthCheck, webhookMode, pollHistory, resolverVars, authVars>>

\* AirConditionerService.getTargetTemperature, webhookServer.ts 688-697, on
\* the snapshot getDeviceStatus returns (737-750): the empty snapshot of
\* addComponent (status: {}) is truthy and is returned as cached status, and
\* reading the setpoint from a snapshot without it throws.
getTargetStateRejects(snapshot, hasValue) == snapshot = 0 \/ ~hasValue

\* startPollingState, line 550: getTargetState().then(...) settles once the
\* status read of the tick has; the chain has no rejection handler.
TargetReadSettles(hasValue) ==
    /\ microtasks = <<>>
    /\ targetRead = "pending"
    /\ callers[Poller].pc = "done"
    /\ targetRead' = "none"
    /\ unhandledRejection' =
           (unhandledRejection \/ getTargetStateRejects(componentStatus, hasValue))
    /\ UNCHANGED <<now, deviceVars, callers, microtasks, statusGet, historyVars,
                   healthCheck, probes, webhookMode, tickParity, pollHistory,
                   resolverVars, authVars>>

\* startPollingState, lines 556-562: the health probe of the timer is answered.
ProbeCompletes(state) ==
    /\ microtasks = <<>>
    /\ probes > 0
    /\ probes' = probes - 1
    /\ IF state = "ONLINE"
       THEN online' = TRUE /\ giveUpTime' = 0 /\ failureCount' = 0
       ELSE UNCHANGED <<online, giveUpTime, failureCount>>
    /\ UNCHANGED <<now, deviceStatusTimestamp, commandInProgress, lastCommandCompleted,
                   statusQueryInProgress, lastStatusResult, componentStatus, callers,
                   microtasks, statusGet, historyVars, healthCheck, webhookMode,
                   tickParity, targetVars, pollHistory, resolverVars, authVars>>

\* webhookServer.ts, line 726: the test negates the member isOnline itself, a
\* method, which is truthy whatever the online flag holds.
isOnlineMember(onlineFlag) == TRUE

\* AirConditionerService.sendCommandsOrFail, webhookServer.ts 725-735: the
\* synchronous part.
SendCommandsOrFail(c) ==
    /\ callers[c].pc \in {"idle", "done"}
    /\ IF ~isOnlineMember(online)
       THEN /\ callers' = [callers EXCEPT ![c] =
                   [IdleCaller EXCEPT !.op = "send", !.pc = "done", !.calledAt = now]]
            /\ UNCHANGED <<now, deviceVars, microtasks, statusGet, historyVars,
                           pollVars, resolverVars, authVars>>
       ELSE CallSendCommands(c)

\* Time passes between turns of the polling behaviours.
PollWait(d) ==
    /\ microtasks = <<>>
    /\ now + d <= StartTime + MaxPollElapsed
    /\ now' = now + d
    /\ UNCHANGED <<deviceVars, callers, microtasks, statusGet, historyVars, pollVars,
                   resolverVars, authVars>>

InitPoll ==
    /\ ResolverIdle
    /\ AuthIdle
    /\ \E webhook \in BOOLEAN : SyncStart("pending", webhook)

NextPoll ==
    \/ \E state \in HealthStates : HealthCheckCompletes(state)
    \/ \E force \in BOOLEAN, hasTarget \in BOOLEAN :
           (hasTarget => force) /\ PollTick(force, hasTarget)
    \/ \E hasValue \in BOOLEAN : TargetReadSettles(hasValue)
    \/ SendCommandsOrFail(Commander)
    \/ RunMicrotask
    \/ \E ok \in BOOLEAN : CommandCompletes(Commander, ok)
    \/ \E hasComponents \in BOOLEAN : StatusSucceeds(hasComponents)
    \/ StatusFails
    \/ \E d \in PollClockSteps : PollWait(d)

SpecPoll == InitPoll /\ [][NextPoll]_vars

NextSync ==
    \/ \E c \in Callers : CallSendCommands(c)
    \/ \E c \in Callers, force \in BOOLEAN : CallRefreshStatus(c, force)
    \/ RunMicrotask
    \/ \E c \in Callers : CommandWaiterProceeds(c)
    \/ \E c \in Callers : StatusWaiterProceeds(c)
    \/ \E c \in Callers : StatusJoinerResumes(c)
    \/ \E c \in Callers : CommandUnauthorized(c)
    \/ \E c \in Callers, ok \in BOOLEAN : CommandCompletes(c, ok)
    \/ \E hasComponents \in BOOLEAN : StatusSucceeds(hasComponents)
    \/ StatusFails
    \/ \E d \in ClockSteps : Tick(d)

SpecSync == InitSync /\ [][NextSync]_vars

\* Commands only, with one more caller: one command in flight and the others
\* waiting for it.
QueueCallers == 1..(MaxCallers + 1)

InitQueue == ResolverIdle /\ SyncStartOf("done", FALSE, QueueCallers) /\ AuthIdle

NextQueue ==
    \/ \E c \in QueueCallers : CallSendCommands(c)
    \/ RunMicrotask
    \/ \E c \in QueueCallers : CommandWaiterProceeds(c)
    \/ \E c \in QueueCallers, ok \in BOOLEAN : CommandCompletes(c, ok)
    \/ \E d \in ClockSteps : Tick(d)

SpecQueue == InitQueue /\ [][NextQueue]_vars

\* The event loop runs every continuation that is ready and every interval of
\* waitFor keeps firing (a firing that finds its condition false changes
\* nothing); every remote call is answered, however often other turns run
\* first.
FairSync ==
    /\ WF_vars(RunMicrotask)
    /\ \A c \in Callers :
           /\ WF_vars(CommandWaiterProceeds(c))
           /\ WF_vars(StatusWaiterProceeds(c))
           /\ WF_vars(StatusJoinerResumes(c))
           /\ SF_vars(\E ok \in BOOLEAN : CommandCompletes(c, ok))
    /\ SF_vars(StatusFails \/ \E hasComponents \in BOOLEAN : StatusSucceeds(hasComponents))

SpecSyncFair == SpecSync /\ FairSync

-----------------------------------------------------------------------------
(* Token store and authorization: TokenManager, SmartThingsAuth and the     *)
(* response interceptor of the platform's HTTP client.                      *)

\* TokenManager.getAccessToken (0: null).
getAccessToken(td) == td.access_token

\* TokenManager.getRefreshToken (0: null).
getRefreshToken(td) == td.refresh_token

\* TokenManager.isTokenValid.
isTokenValid(td, t) == td # NoToken /\ t < td.expires_at - REFRESH_BEFORE_EXPIRY

\* TokenManager.isRefreshTokenValid.
isRefreshTokenValid(td, t) ==
    td # NoToken /\ t < td.refresh_token_expires_at - REFRESH_BEFORE_EXPIRY

\* TokenManager.updateTokens followed by saveTokens: the new record.
updateTokens(td, data, t) ==
    [access_token |-> data.access_token,
     refresh_token |-> data.refresh_token,
     expires_at |-> t + data.expires_in,
     refresh_token_expires_at |-> t + RefreshTokenWindow]

\* The body the token endpoint answers a successful call with.
TokenResponse(life) ==
    [access_token |-> issued + 1, refresh_token |-> issued + 1, expires_in |-> life]

retryRegardless(status, retry) == status = 401

\* Response interceptor, line 85.
shouldRefresh(status, retry) == status = 401 /\ ~retry

RefreshRecorded(path, ok) ==
    refreshOutcome' = [n |-> refreshOutcome.n + 1, path |-> path, ok |-> ok,
                       token |-> IF ok THEN issued + 1 ELSE 0]

\* SmartThingsAuth.initialize, up to its await or its return.
Initialize ==
    /\ launch = "running"
    /\ initialize.pc = "start"
    /\ IF getAccessToken(tokenData) = 0 \/ ~isTokenValid(tokenData, authTime)
       THEN IF isRefreshTokenValid(tokenData, authTime)
            THEN IF getRefreshToken(tokenData) # 0
                 THEN /\ initialize' = [initialize EXCEPT !.pc = "refreshing"]
                      /\ tokenCalls' = tokenCalls + 1
                      /\ UNCHANGED authFlowStarted
                 ELSE /\ initialize' = [pc |-> "done", authFlowStarted |-> TRUE]
                      /\ authFlowStarted' = TRUE
                      /\ UNCHANGED tokenCalls
            ELSE /\ initialize' = [pc |-> "done", authFlowStarted |-> TRUE]
                 /\ authFlowStarted' = TRUE
                 /\ UNCHANGED tokenCalls
       ELSE /\ initialize' = [pc |-> "done", authFlowStarted |-> FALSE]
            /\ UNCHANGED <<authFlowStarted, tokenCalls>>
    /\ UNCHANGED <<authTime, tokenData, tokenFile, monitorRefreshes, requests, issued,
                   refreshOutcome, callback, resolverVars, syncVars,
                   startupVars, refreshDue, monitorTrail, loadVars, discovery>>

\* SmartThingsAuth.initialize, lines 165-176: its refreshTokens call returns or throws.
InitializeRefreshCompletes(ok) ==
    /\ initialize.pc = "refreshing"
    /\ RefreshRecorded("initialize", ok)
    /\ initialize' = [pc |-> "done", authFlowStarted |-> ~ok]
    /\ authFlowStarted' = (authFlowStarted \/ ~ok)
    /\ issued' = IF ok THEN issued + 1 ELSE issued
    /\ UNCHANGED <<authTime, tokenData, tokenFile, monitorRefreshes, requests,
                   tokenCalls, callback, resolverVars, syncVars,
                   startupVars, refreshDue, monitorTrail, loadVars, discovery>>

\* The interval of startRefreshMonitor fires: checkAndRefreshTokens up to its await.
MonitorTick ==
    /\ refreshTimer
    /\ authTime + REFRESH_CHECK_INTERVAL <= StartTime + MaxAuthElapsed
    /\ authTime' = authTime + REFRESH_CHECK_INTERVAL
    /\ IF /\ tokenData # NoToken
          /\ tokenData.refresh_token # 0
          /\ tokenData.expires_at - authTime' <= REFRESH_BEFORE_EXPIRY
       THEN /\ tokenCalls < MaxTokenCalls
            /\ tokenCalls' = tokenCalls + 1
            /\ monitorRefreshes' = monitorRefreshes + 1
            /\ refreshDue' = TRUE
            /\ monitorTrail' = [monitorTrail EXCEPT !.used = getRefreshToken(tokenData)]
       ELSE UNCHANGED <<tokenCalls, monitorRefreshes, refreshDue, monitorTrail>>
    /\ UNCHANGED <<tokenData, tokenFile, initialize, requests, authFlowStarted, issued,
                   refreshOutcome, callback, resolverVars, syncVars,
                   startupVars, loadVars, discovery>>

\* checkAndRefreshTokens, line 75: the catch branch calls startAuthFlowCallback.
startAuthFlowOnFailure(started) == TRUE

\* checkAndRefreshTokens, lines 67-76: its refresh call returns or throws.
MonitorRefreshCompletes(ok, life) ==
    /\ monitorRefreshes > 0
    /\ monitorRefreshes' = monitorRefreshes - 1
    /\ RefreshRecorded("monitor", ok)
    /\ IF ok
       THEN /\ tokenData' = updateTokens(tokenData, TokenResponse(life), authTime)
            /\ tokenFile' = tokenData'
            /\ issued' = issued + 1
            /\ refreshDue' = FALSE
            /\ UNCHANGED authFlowStarted
       ELSE /\ authFlowStarted' = startAuthFlowOnFailure(authFlowStarted)
            /\ UNCHANGED <<tokenData, tokenFile, issued, refreshDue>>
    /\ monitorTrail' = IF ~ok /\ monitorRefreshes = 1
                       THEN [monitorTrail EXCEPT !.failed = @ \cup {monitorTrail.used}]
                       ELSE monitorTrail
    /\ UNCHANGED <<authTime, initialize, requests, tokenCalls, callback, resolverVars, syncVars,
                   startupVars, loadVars, discovery>>

\* A remote call leaves through the request interceptor. Calls are made once
\* didFinishLaunching found a token and no authorization flow started.
SendRequest(r) ==
    /\ requests[r].pc = "idle"
    /\ initialize.pc = "done" /\ ~initialize.authFlowStarted
    /\ getAccessToken(tokenData) # 0
    /\ requests' = [requests EXCEPT ![r].pc = "sent"]
    /\ UNCHANGED <<authTime, tokenData, tokenFile, initialize, monitorRefreshes,
                   authFlowStarted, tokenCalls, issued, refreshOutcome,
                   callback, resolverVars, syncVars,
                   startupVars, refreshDue, monitorTrail, loadVars, discovery>>

\* Response interceptor, lines 79-120, up to its await or its return.
Respond(r, status) ==
    /\ requests[r].pc = "sent"
    /\ LET seen == [requests[r] EXCEPT
                       !.unauthorized = IF status = 401 THEN @ + 1 ELSE @]
       IN IF shouldRefresh(status, requests[r]._retry)
          THEN IF getRefreshToken(tokenData) = 0
               THEN /\ requests' = [requests EXCEPT ![r] =
                           [seen EXCEPT !.pc = "failed", !._retry = TRUE,
                                        !.refreshResult = "notoken",
                                        !.startedAuth = TRUE]]
                    /\ authFlowStarted' = TRUE
                    /\ UNCHANGED tokenCalls
               ELSE /\ tokenCalls < MaxTokenCalls
                    /\ tokenCalls' = tokenCalls + 1
                    /\ requests' = [requests EXCEPT ![r] =
                           [seen EXCEPT !.pc = "refreshing", !._retry = TRUE,
                                        !.refreshes = @ + 1]]
                    /\ UNCHANGED authFlowStarted
          ELSE /\ requests' = [requests EXCEPT ![r] =
                      [seen EXCEPT !.pc = IF status = 200 THEN "ok" ELSE "failed"]]
               /\ UNCHANGED <<authFlowStarted, tokenCalls>>
    /\ UNCHANGED <<authTime, tokenData, tokenFile, initialize, monitorRefreshes, issued,
                   refreshOutcome, callback, resolverVars, syncVars,
                   startupVars, refreshDue, monitorTrail, loadVars, discovery>>

\* Response interceptor, lines 97-115: its refreshTokens call returns or throws.
InterceptorRefreshCompletes(r, ok) ==
    /\ requests[r].pc = "refreshing"
    /\ RefreshRecorded("interceptor", ok)
    /\ IF ok
       THEN /\ issued' = issued + 1
            /\ IF getAccessToken(tokenData) # 0
               THEN requests' = [requests EXCEPT ![r].pc = "sent",
                                                 ![r].retries = @ + 1,
                                                 ![r].refreshResult = "ok"]
               ELSE requests' = [requests EXCEPT ![r].pc = "failed",
                                                 ![r].refreshResult = "ok"]
            /\ UNCHANGED authFlowStarted
       ELSE /\ requests' = [requests EXCEPT ![r].pc = "failed",
                                            ![r].refreshResult = "fail",
                                            ![r].startedAuth = TRUE]
            /\ authFlowStarted' = TRUE
            /\ UNCHANGED issued
    /\ UNCHANGED <<authTime, tokenData, tokenFile, initialize, monitorRefreshes,
                   tokenCalls, callback, resolverVars, syncVars,
                   startupVars, refreshDue, monitorTrail, loadVars, discovery>>

\* The state parameter of a callback: missing, the state of the flow started
\* last, or any other string.
QueryStates == {"missing", "issued", "stale"}

\* SmartThingsAuth.state: null, or the random state startAuthFlow issued last
\* (server_url is configured).
oauthState == IF authFlowStarted THEN "issued" ELSE "null"

\* A check of the code alone.
callbackAcceptedWithCode(code, queryState, expected) == code

\* handleOAuthCallback, lines 36-42: the query has a code and a state, and
\* the state is the one held by the object.
callbackAccepted(code, queryState, expected) ==
    /\ ~(~code \/ queryState = "missing")
    /\ ~(queryState # expected)

\* SmartThingsAuth.handleOAuthCallback with the state of a started flow: the
\* code is exchanged and the tokens are stored.
HandleOAuthCallback(life) ==
    /\ callbackAccepted(TRUE, "issued", oauthState)
    /\ tokenCalls < MaxTokenCalls
    /\ tokenCalls' = tokenCalls + 1
    /\ tokenData' = updateTokens(tokenData, TokenResponse(life), authTime)
    /\ tokenFile' = tokenData'
    /\ issued' = issued + 1
    /\ refreshDue' = FALSE
    /\ callback' = [code |-> TRUE, state |-> "issued", expected |-> oauthState,
                    status |-> 200, replaced |-> tokenData' # tokenData]
    /\ UNCHANGED <<authTime, initialize, monitorRefreshes, requests, authFlowStarted,
                   refreshOutcome, resolverVars, syncVars,
                   startupVars, monitorTrail, loadVars, discovery>>

\* SmartThingsAuth.handleOAuthCallback throws: the query is refused, or
\* the token endpoint rejects the code; the catch answers 500.
OAuthCallbackFails(code, queryState, exchangeOk) ==
    /\ ~(callbackAccepted(code, queryState, oauthState) /\ exchangeOk)
    /\ IF callbackAccepted(code, queryState, oauthState)
       THEN /\ tokenCalls < MaxTokenCalls
            /\ tokenCalls' = tokenCalls + 1
       ELSE UNCHANGED tokenCalls
    /\ callback' = [code |-> code, state |-> queryState, expected |-> oauthState,
                    status |-> 500, replaced |-> FALSE]
    /\ UNCHANGED <<authTime, tokenData, tokenFile, initialize, monitorRefreshes,
                   requests, authFlowStarted, issued, refreshOutcome, refreshDue,
                   resolverVars, syncVars, startupVars, monitorTrail, loadVars,
                   discovery>>

\* TokenManager.clearTokens: the file is removed if it exists, and only then
\* the tokens in memory and the timer are dropped; a failing removal throws.
clearTokens(memory, file, timer, removeOk) ==
    IF file # NoToken /\ removeOk
    THEN [tokenData |-> NoToken, tokenFile |-> NoToken, refreshTimer |-> FALSE]
    ELSE [tokenData |-> memory, tokenFile |-> file, refreshTimer |-> timer]

\* The didFinishLaunching handler, lines 126-147: crash-loop recovery
\* (handleCrashLoopRecovery) and return, or on to initialize.
DidFinishLaunching(removeOk) ==
    /\ launch = "pending"
    /\ IF isCrashLoopDetected(crashRecords)
       THEN LET cleared == clearTokens(tokenData, tokenFile, refreshTimer, removeOk)
            IN /\ tokenData' = cleared.tokenData
               /\ tokenFile' = cleared.tokenFile
               /\ refreshTimer' = cleared.refreshTimer
               /\ authFlowStarted' = TRUE
               /\ launch' = "recovered"
       ELSE /\ launch' = "running"
            /\ UNCHANGED <<tokenData, tokenFile, refreshTimer, authFlowStarted>>
    /\ UNCHANGED <<authTime, initialize, monitorRefreshes, requests, tokenCalls, issued,
                   refreshOutcome, crashRecords, refreshDue, monitorTrail, loadVars, discovery,
                   callback, resolverVars,
                   syncVars>>

InitAuth ==
    /\ ResolverIdle
    /\ SyncIdle
    /\ \E load \in LoadedTokens, crashes \in 0..MaxCrashRecords :
          /\ AuthStart(load.memory, load.file, crashes)
          /\ bootstrap = (load.memory = ConfigToken)
          /\ loaded = <<load.memory>>

NextAuth ==
    \/ \E removeOk \in BOOLEAN : DidFinishLaunching(removeOk)
    \/ Initialize
    \/ \E ok \in BOOLEAN : InitializeRefreshCompletes(ok)
    \/ MonitorTick
    \/ \E ok \in BOOLEAN, life \in Lifetimes : MonitorRefreshCompletes(ok, life)
    \/ \E r \in Requests : SendRequest(r)
    \/ \E r \in Requests, status \in Statuses : Respond(r, status)
    \/ \E r \in Requests, ok \in BOOLEAN : InterceptorRefreshCompletes(r, ok)
    \/ \E life \in Lifetimes : HandleOAuthCallback(life)

SpecAuth == InitAuth /\ [][NextAuth]_vars

\* The OAuth callback endpoint beside the startup handler.
NextOAuth ==
    \/ \E removeOk \in BOOLEAN : DidFinishLaunching(removeOk)
    \/ Initialize
    \/ \E ok \in BOOLEAN : InitializeRefreshCompletes(ok)
    \/ \E life \in Lifetimes : HandleOAuthCallback(life)
    \/ \E code \in BOOLEAN, queryState \in QueryStates, exchangeOk \in BOOLEAN : OAuthCallbackFails(code, queryState, exchangeOk)

SpecOAuth == InitAuth /\ [][NextOAuth]_vars

-----------------------------------------------------------------------------
(* Startup: the didFinishLaunching handler from initialize to discovery      *)

maxRetries == 3        \* withRetry(..., 3, 3000, ...)
baseDelayMs == 3000

ErrorClasses == {"network", "other"}

\* isNetworkError, lines 459-469.
isNetworkError(error) == error = "network"

\* A delay that does not grow.
retryDelayFlat(attempt) == baseDelayMs

\* withRetry, line 438: baseDelayMs * Math.pow(2, attempt - 1).
retryDelay(attempt) == baseDelayMs * 2 ^ (attempt - 1)

\* A gate on the access token alone.
discoveryAllowedWithToken(authFlow, accessToken) == accessToken # 0

\* Line 147: !authFlowStarted && this.auth.getAccessToken().
discoveryAllowed(authFlow, accessToken) == ~authFlow /\ accessToken # 0

\* Lines 149-156: discovery starts if initialize started no authorization flow
\* and there is an access token; withRetry makes its first attempt.
StartDiscovery ==
    /\ launch = "running"
    /\ initialize.pc = "done"
    /\ discovery.pc = "none"
    /\ IF discoveryAllowed(initialize.authFlowStarted, getAccessToken(tokenData))
       THEN discovery' = [discovery EXCEPT !.pc = "calling", !.attempt = 1]
       ELSE discovery' = [discovery EXCEPT !.pc = "skipped"]
    /\ UNCHANGED <<authTime, tokenData, tokenFile, initialize, monitorRefreshes,
                   requests, authFlowStarted, tokenCalls, issued, refreshOutcome,
                   startupVars, refreshDue, monitorTrail, loadVars, callback, resolverVars,
                   syncVars>>

\* getOnlineDevices resolves: withRetry returns and discoverDevices runs
\* (lines 157-166).
DiscoverySucceeds ==
    /\ discovery.pc = "calling"
    /\ discovery' = [discovery EXCEPT !.pc = "discovered"]
    /\ UNCHANGED <<authTime, tokenData, tokenFile, initialize, monitorRefreshes,
                   requests, authFlowStarted, tokenCalls, issued, refreshOutcome,
                   startupVars, refreshDue, monitorTrail, loadVars, callback, resolverVars,
                   syncVars>>

\* getOnlineDevices rejects: its catch records a crash (lines 279-284); the
\* catch of withRetry starts a delay, or throws to the handler, whose catch
\* records a crash as well (lines 181-188).
DiscoveryFails(error) ==
    /\ discovery.pc = "calling"
    /\ IF discovery.attempt < maxRetries /\ isNetworkError(error)
       THEN /\ discovery' = [discovery EXCEPT
                                 !.pc = "delaying",
                                 !.errors = Append(@, error),
                                 !.delays = Append(@, retryDelay(discovery.attempt)),
                                 !.appended = @ + 1]
            /\ crashRecords' = crashRecords + 1
       ELSE /\ discovery' = [discovery EXCEPT !.pc = "failed",
                                              !.errors = Append(@, error),
                                              !.appended = @ + 2]
            /\ crashRecords' = crashRecords + 2
    /\ UNCHANGED <<authTime, tokenData, tokenFile, initialize, monitorRefreshes,
                   requests, authFlowStarted, tokenCalls, issued, refreshOutcome,
                   launch, refreshTimer, refreshDue, monitorTrail, loadVars,
                   callback, resolverVars, syncVars>>

\* withRetry, line 443: the delay is over, the loop makes its next attempt.
RetryDiscovery ==
    /\ discovery.pc = "delaying"
    /\ discovery' = [discovery EXCEPT !.pc = "calling", !.attempt = @ + 1]
    /\ UNCHANGED <<authTime, tokenData, tokenFile, initialize, monitorRefreshes,
                   requests, authFlowStarted, tokenCalls, issued, refreshOutcome,
                   startupVars, refreshDue, monitorTrail, loadVars, callback, resolverVars,
                   syncVars>>

NextLaunch ==
    \/ \E removeOk \in BOOLEAN : DidFinishLaunching(removeOk)
    \/ Initialize
    \/ \E ok \in BOOLEAN : InitializeRefreshCompletes(ok)
    \/ StartDiscovery
    \/ DiscoverySucceeds
    \/ \E error \in ErrorClasses : DiscoveryFails(error)
    \/ RetryDiscovery

SpecLaunch == InitAuth /\ [][NextLaunch]_vars

-----------------------------------------------------------------------------
(* Startup of the token store: the TokenManager constructor, run after run   *)

MaxStartups == 2       \* runs of the constructor in one behaviour
MaxDowntime == 7200    \* seconds the clock advances over one behaviour

Downtimes == {60, 3600}

\* loadTokens, lines 91-97: the record built from the tokens of the config.
ConfigTokenAt(t) ==
    [access_token |-> 1, refresh_token |-> 1, expires_at |-> t + 86400,
     refresh_token_expires_at |-> t + RefreshTokenWindow]

\* saveTokens, lines 107-116: a failed write is logged and swallowed.
saveTokens(td, file, writeOk) == IF td # NoToken /\ writeOk THEN td ELSE file

\* loadTokens, lines 80-105: what it leaves in memory and in the file.
loadTokens(file, hasConfig, t, writeOk) ==
    IF file # NoToken
    THEN [tokenData |-> file, tokenFile |-> file]
    ELSE IF hasConfig
         THEN [tokenData |-> ConfigTokenAt(t),
               tokenFile |-> saveTokens(ConfigTokenAt(t), file, writeOk)]
         ELSE [tokenData |-> NoToken, tokenFile |-> file]

\* The platform has not been started yet.
InitStartup ==
    /\ ResolverIdle
    /\ SyncIdle
    /\ \E file \in TokenFiles : AuthStart(NoToken, file, 0)
    /\ bootstrap \in BOOLEAN
    /\ loaded = <<>>

\* new TokenManager(...), lines 24-36: one start of the plugin.
Startup(writeOk) ==
    /\ Len(loaded) < MaxStartups
    /\ LET load == loadTokens(tokenFile, bootstrap, authTime, writeOk)
       IN /\ tokenData' = load.tokenData
          /\ tokenFile' = load.tokenFile
          /\ loaded' = Append(loaded, load.tokenData)
    /\ UNCHANGED <<authTime, initialize, monitorRefreshes, requests, authFlowStarted,
                   tokenCalls, issued, refreshOutcome, startupVars, refreshDue,
                   monitorTrail, bootstrap, discovery, callback, resolverVars, syncVars>>

\* Time passes between two starts.
Downtime(d) ==
    /\ authTime + d <= StartTime + MaxDowntime
    /\ authTime' = authTime + d
    /\ UNCHANGED <<tokenData, tokenFile, initialize, monitorRefreshes, requests,
                   authFlowStarted, tokenCalls, issued, refreshOutcome, startupVars,
                   refreshDue, monitorTrail, loadVars, discovery, callback, resolverVars, syncVars>>

NextStartup ==
    \/ \E writeOk \in BOOLEAN : Startup(writeOk)
    \/ \E d \in Downtimes : Downtime(d)

SpecStartup == InitStartup /\ [][NextStartup]_vars

-----------------------------------------------------------------------------
(* Restarts: the plugin is started, runs its didFinishLaunching handler, and *)
(* is started again                                                          *)

\* The first start: the TokenManager constructor has run, and crash records
\* are left from earlier runs.
InitRestart ==
    /\ ResolverIdle
    /\ SyncIdle
    /\ \E file \in TokenFiles, hasConfig \in BOOLEAN, writeOk \in BOOLEAN, crashes \in 0..MaxCrashRecords :
          LET load == loadTokens(file, hasConfig, StartTime, writeOk)
          IN /\ AuthStart(load.tokenData, load.tokenFile, crashes)
             /\ bootstrap = hasConfig
             /\ loaded = <<load.tokenData>>

\* A further start of the plugin: the state of the process is built anew, the
\* TokenManager constructor loads the tokens and starts the monitor, and
\* `remaining` of the persisted crash records are still in the window.
Restart(writeOk, remaining) ==
    /\ Len(loaded) < MaxStartups
    /\ launch # "pending"
    /\ LET load == loadTokens(tokenFile, bootstrap, authTime, writeOk)
       IN /\ tokenData' = load.tokenData
          /\ tokenFile' = load.tokenFile
          /\ loaded' = Append(loaded, load.tokenData)
    /\ initialize' = [pc |-> "start", authFlowStarted |-> FALSE]
    /\ requests' = [r \in Requests |-> NewRequest]
    /\ authFlowStarted' = FALSE
    /\ launch' = "pending"
    /\ refreshTimer' = TRUE
    /\ crashRecords' = remaining
    /\ discovery' = NoDiscovery
    /\ UNCHANGED <<authTime, monitorRefreshes, tokenCalls, issued, refreshOutcome,
                   refreshDue, monitorTrail, bootstrap, callback, resolverVars, syncVars>>

NextRestart ==
    \/ \E writeOk \in BOOLEAN, remaining \in 0..crashRecords : Restart(writeOk, remaining)
    \/ \E d \in {MaxDowntime \div 2} : launch # "pending" /\ Downtime(d)
    \/ \E removeOk \in BOOLEAN : DidFinishLaunching(removeOk)
    \/ Initialize
    \/ \E ok \in BOOLEAN : InitializeRefreshCompletes(ok)
    \/ \E r \in Requests : SendRequest(r)
    \/ \E life \in Lifetimes : HandleOAuthCallback(life)

SpecRestart == InitRestart /\ [][NextRestart]_vars

-----------------------------------------------------------------------------
(* Properties of capability resolution *)

AdaptersOf(componentId) ==
    {i \in DOMAIN services : services[i].componentId = componentId}

CapabilitiesOf(componentId) ==
    UNION {components[i].capabilities :
               i \in {j \in DOMAIN components : components[j].componentId = componentId}}

IsGeneric(a) == a.service \notin {"TelevisionService", "VolumeSliderService"}

\* The capabilities two adapters of one component are allowed to share.
AllowedOverlap(a, b) ==
    IF {a.service, b.service} = {"TelevisionService", "VolumeSliderService"}
    THEN TvCapabilities \cap VolumeSliderCapabilities
    ELSE IF "TelevisionService" \in {a.service, b.service}
            /\ (IsGeneric(a) \/ IsGeneric(b))
            /\ ~config.removeLegacySwitchForTV
         THEN {"switch"}
         ELSE {}

\* C1 (as stated): for every component with capability set C, the capability
\* sets of its adapters are pairwise disjoint and each is a subset of C.
C1_DisjointAsStated ==
    \A c \in DOMAIN components :
        LET cid == components[c].componentId IN
        /\ \A i \in AdaptersOf(cid) :
               services[i].capabilities \subseteq components[c].capabilities
        /\ \A i, j \in AdaptersOf(cid) :
               i # j => services[i].capabilities \cap services[j].capabilities = {}

\* C1 (amended): every adapter's capability set is a subset of C, and two
\* adapters of a component share no capability, except on a television main
\* component, where 'switch' is shared by the television adapter and one
\* further adapter under the retain policy, and the volume capabilities are
\* shared by the television adapter and the volume-slider adapter.
C1_DisjointExceptTelevision ==
    \A c \in DOMAIN components :
        LET cid == components[c].componentId IN
        /\ \A i \in AdaptersOf(cid) :
               services[i].capabilities \subseteq components[c].capabilities
        /\ \A i, j \in AdaptersOf(cid) :
               i # j => (services[i].capabilities \cap services[j].capabilities)
                            \subseteq AllowedOverlap(services[i], services[j])
        /\ \A cap \in components[c].capabilities :
               Cardinality({i \in AdaptersOf(cid) : cap \in services[i].capabilities})
                   <= (IF cid = "main" /\ deviceIsTelevision /\ cap \in TvCapabilities
                       THEN 2 ELSE 1)

\* A television main component resolved with the retain policy and the volume
\* slider: television, volume-slider, legacy and combination adapters exist.
C1_Witness ==
    /\ \E i \in DOMAIN services : services[i].service = "TelevisionService"
    /\ \E i \in DOMAIN services : services[i].service = "VolumeSliderService"
    /\ \E i \in DOMAIN services :
           /\ IsGeneric(services[i])
           /\ "switch" \in services[i].capabilities
           /\ Cardinality(services[i].capabilities) >= 2

\* The position of a combination rule in the sorted table.
PositionOf(rule) ==
    CHOOSE i \in DOMAIN sortedComboCapabilityMap : sortedComboCapabilityMap[i] = rule

\* The working set of component c after the television block.
AfterTelevision(c) ==
    televisionBlock([services |-> <<>>,
                     capabilitiesToCover |-> components[c].capabilities],
                    config, deviceIsTelevision, components[c].componentId,
                    components[c].capabilities)

\* The remaining capabilities of component c when the combination pass reaches
\* position i of the sorted table.
RemainingBefore(c, i) ==
    comboPass(AfterTelevision(c), SubSeq(sortedComboCapabilityMap, 1, i - 1), 1,
              components[c].componentId).capabilitiesToCover

\* Rule a of the table is larger than rule b, or as large and earlier.
Precedes(a, b) ==
    \/ Len(comboCapabilityMap[a].capabilities) > Len(comboCapabilityMap[b].capabilities)
    \/ /\ Len(comboCapabilityMap[a].capabilities) = Len(comboCapabilityMap[b].capabilities)
       /\ a < b

GenericAdaptersOf(componentId) ==
    {i \in AdaptersOf(componentId) : IsGeneric(services[i])}

\* C17: when two combination rules are both satisfiable from the remaining
\* set at the moment the first of them is tried, the larger one (of two equally
\* large ones, the one earlier in the table) is the one tried first and applied:
\* its adapter exists and no other generic adapter holds any of its required
\* capabilities. A remaining set {switch, fanSpeed, switchLevel} gives exactly
\* one generic adapter, covering all three.
C17_LargerRuleWins ==
    \A c \in DOMAIN components :
        LET cid == components[c].componentId IN
        /\ \A a, b \in DOMAIN comboCapabilityMap :
               LET ra == comboCapabilityMap[a]
                   rb == comboCapabilityMap[b]
                   first == IF PositionOf(ra) < PositionOf(rb)
                            THEN PositionOf(ra) ELSE PositionOf(rb)
                   remaining == RemainingBefore(c, first)
               IN (/\ Precedes(a, b)
                   /\ Range(ra.capabilities) \subseteq components[c].capabilities
                   /\ Range(rb.capabilities) \subseteq components[c].capabilities
                   /\ Range(ra.capabilities) \subseteq remaining
                   /\ Range(rb.capabilities) \subseteq remaining)
                  => /\ PositionOf(ra) < PositionOf(rb)
                     /\ \E k \in GenericAdaptersOf(cid) :
                            /\ services[k].service = ra.service
                            /\ Range(ra.capabilities) \subseteq services[k].capabilities
                     /\ \A k \in GenericAdaptersOf(cid) :
                            services[k].capabilities \cap Range(ra.capabilities) # {}
                            => /\ services[k].service = ra.service
                               /\ Range(ra.capabilities) \subseteq services[k].capabilities
        /\ AfterTelevision(c).capabilitiesToCover = {"switch", "fanSpeed", "switchLevel"}
           => \E k \in AdaptersOf(cid) :
                  /\ GenericAdaptersOf(cid) = {k}
                  /\ services[k].service = "FanSwitchLevelService"
                  /\ services[k].capabilities = {"switch", "fanSpeed", "switchLevel"}

\* A component with switch, fanSpeed and switchLevel, which three combination
\* rules match, resolved to the single adapter of the largest rule.
C17_Witness ==
    \E c \in DOMAIN components :
        /\ components[c].capabilities = {"switch", "fanSpeed", "switchLevel"}
        /\ ~deviceIsTelevision
        /\ \E k \in DOMAIN services :
               /\ AdaptersOf(components[c].componentId) = {k}
               /\ services[k].service = "FanSwitchLevelService"

\* The required sets of the combination rules and of the single-capability rules.
RequiredSets ==
    {Range(comboCapabilityMap[i].capabilities) : i \in DOMAIN comboCapabilityMap}
        \cup {{capabilityMap[i].capability} : i \in DOMAIN capabilityMap}

\* The only rule matching the set is the display-light rule, and it is switched off.
GatedOff(capabilities) ==
    capabilities = {"samsungce.airConditionerLighting"} /\ ~config.ExposeACDisplayLight

\* C18 as stated: a component of a device that is not a television whose
\* capability set is exactly the required set of a rule gets exactly one
\* adapter, covering the whole set.
C18_ExactSetOneAdapter ==
    \A c \in DOMAIN components :
        (~deviceIsTelevision /\ components[c].capabilities \in RequiredSets)
        => \E k \in DOMAIN services :
               /\ AdaptersOf(components[c].componentId) = {k}
               /\ services[k].capabilities = components[c].capabilities

\* C18, amended: the same, unless the rule is the display-light rule with
\* ExposeACDisplayLight unset, which gives no adapter; {switch, switchLevel}
\* gives one LightService adapter and {switch} one SwitchService adapter.
C18_ExactSetOneEnabledAdapter ==
    \A c \in DOMAIN components :
        LET cid == components[c].componentId
            capabilities == components[c].capabilities
        IN (~deviceIsTelevision /\ capabilities \in RequiredSets)
           => IF GatedOff(capabilities)
              THEN AdaptersOf(cid) = {}
              ELSE \E k \in DOMAIN services :
                       /\ AdaptersOf(cid) = {k}
                       /\ services[k].capabilities = capabilities
                       /\ capabilities = {"switch", "switchLevel"}
                          => services[k].service = "LightService"
                       /\ capabilities = {"switch"}
                          => services[k].service = "SwitchService"

\* A component with exactly switch and switchLevel, resolved to one adapter.
C18_Witness ==
    \E c \in DOMAIN components :
        /\ components[c].capabilities = {"switch", "switchLevel"}
        /\ ~deviceIsTelevision
        /\ \E k \in DOMAIN services :
               /\ AdaptersOf(components[c].componentId) = {k}
               /\ services[k].service = "LightService"
               /\ services[k].capabilities = {"switch", "switchLevel"}

\* The adapters of component c built by the named class, and the adapters of
\* the component other than the television adapter that are bound to 'switch'.
AdaptersBuiltBy(c, class) ==
    {i \in DOMAIN services : /\ services[i].componentId = components[c].componentId
                             /\ services[i].service = class}

LegacySwitchAdapters(c) ==
    {i \in DOMAIN services : /\ services[i].componentId = components[c].componentId
                             /\ services[i].service # "TelevisionService"
                             /\ "switch" \in services[i].capabilities}

\* C28: on the main component of a television with the television feature
\* enabled, one television adapter is bound to every television capability
\* the component has; under the 'drop' policy no other adapter is bound to
\* 'switch', under the 'retain' policy one other adapter is bound to it as
\* well; a component that is not main, or a device with the feature disabled,
\* gets no television adapter.
C28_TelevisionClaim ==
    \A c \in DOMAIN components :
        LET tvCapabilities == TvCapabilities \cap components[c].capabilities
            applies == /\ config.enableTelevisionService
                       /\ components[c].componentId = "main"
                       /\ deviceIsTelevision
        IN /\ (applies /\ tvCapabilities # {})
              => /\ Cardinality(AdaptersBuiltBy(c, "TelevisionService")) = 1
                 /\ \A i \in AdaptersBuiltBy(c, "TelevisionService") :
                        services[i].capabilities = tvCapabilities
           /\ (applies /\ "switch" \in tvCapabilities)
              => IF config.removeLegacySwitchForTV
                 THEN LegacySwitchAdapters(c) = {}
                 ELSE Cardinality(LegacySwitchAdapters(c)) = 1
           /\ ~applies => AdaptersBuiltBy(c, "TelevisionService") = {}

\* A television under the 'retain' policy: the television adapter holds
\* 'switch' and the volume, and a switch adapter holds 'switch' as well.
C28_Witness ==
    /\ deviceIsTelevision
    /\ config.enableTelevisionService
    /\ ~config.removeLegacySwitchForTV
    /\ \E c \in DOMAIN components :
           /\ components[c].componentId = "main"
           /\ \E i \in AdaptersBuiltBy(c, "TelevisionService") :
                  {"switch", "audioVolume"} \subseteq services[i].capabilities
           /\ \E i \in LegacySwitchAdapters(c) : services[i].service = "SwitchService"

\* The adapters of component c, in creation order.
ServicesOf(c) ==
    LET OfComponent(a) == a.componentId = components[c].componentId
    IN SelectSeq(services, OfComponent)

\* What the television block and the combination rules leave of component c.
AfterCombos(c) ==
    comboPass(televisionBlock([services |-> <<>>,
                               capabilitiesToCover |-> components[c].capabilities],
                              config, deviceIsTelevision, components[c].componentId,
                              components[c].capabilities),
              sortedComboCapabilityMap, 1, components[c].componentId)

GateEnabled(capability) ==
    capability = "samsungce.airConditionerLighting" => config.ExposeACDisplayLight

\* The single-capability rules that fire on the remaining set, in declaration
\* order.
FiringRules(remaining) ==
    LET Fires(rule) == rule.capability \in remaining /\ GateEnabled(rule.capability)
    IN SelectSeq(capabilityMap, Fires)

\* C29: the adapters of a component are those of the television block and
\* the combination rules followed by one adapter per single-capability rule,
\* in declaration order, whose capability is still remaining and whose gate
\* is enabled; a remaining capability whose gate is disabled or that no rule
\* names is bound to no adapter.
C29_SinglesAfterCombos ==
    \A c \in DOMAIN components :
        LET after == AfterCombos(c)
            remaining == after.capabilitiesToCover
            rules == FiringRules(remaining)
            adapters == ServicesOf(c)
            unassigned == {capability \in remaining :
                              \/ ~GateEnabled(capability)
                              \/ \A i \in DOMAIN capabilityMap :
                                     capabilityMap[i].capability # capability}
        IN /\ adapters =
                  after.services
                  \o [i \in 1..Len(rules) |->
                         [componentId |-> components[c].componentId,
                          capabilities |-> {rules[i].capability},
                          service |-> rules[i].service]]
           /\ \A i \in DOMAIN adapters : adapters[i].capabilities \cap unassigned = {}

\* With the display-light gate off, a component with switch, battery and the
\* display light has a switch adapter, then a battery adapter, and nothing
\* for the display light.
C29_Witness ==
    /\ ~config.ExposeACDisplayLight
    /\ ~deviceIsTelevision
    /\ Len(components) = 1
    /\ components[1].capabilities =
           {"switch", "battery", "samsungce.airConditionerLighting"}
    /\ Len(services) = 2
    /\ services[1].service = "SwitchService"
    /\ services[2].service = "Battery"

-----------------------------------------------------------------------------
(* Properties of the device synchronizer *)

Posting == {c \in Callers : callers[c].pc = "posting"}

RefreshDone(c) == callers[c].op = "refresh" /\ callers[c].pc = "done"

\* C2: command batches of one device are strictly serialized, also for two
\* sendCommands calls made in the same turn: at most one command request of
\* the device is in flight at any time.
C2_OneCommandInFlight == Cardinality(Posting) <= 1

\* C3: after 5 consecutive failed status fetches (no successful fetch in
\* between) the device is offline and giveUpTime holds the time of the failure.
C3_OfflineAfterFiveFailures ==
    failedRun >= FailureThreshold => (~online /\ giveUpTime > 0)

\* C7: a refreshStatus caller that arrived while a fetch was in flight receives
\* the result (success or failure) of that fetch and of no other.
C7_JoinerGetsItsFetch ==
    \A c \in Callers :
        (RefreshDone(c) /\ callers[c].expected \in {"true", "false"})
            => BoolName(callers[c].result) = callers[c].expected

\* C8: a status GET is never issued while commandInProgress is true.
C8_NoGetDuringCommand == ~getDuringCommand

\* C9: after a successful sendCommands the status cache is invalid
\* (deviceStatusTimestamp = 0), also when the response of a fetch that was in
\* flight when the command was issued arrives after the command completed.
C9_CacheInvalidAfterCommand == cacheOvertaken => deviceStatusTimestamp = 0

Within(c1, c2) ==
    /\ callers[c1].calledAt - callers[c2].calledAt <= StalenessWindow
    /\ callers[c2].calledAt - callers[c1].calledAt <= StalenessWindow

UnforcedRefreshCall(c) ==
    /\ callers[c].pc \in {"idle", "done"}
    /\ callers'[c] # callers[c]
    /\ callers'[c].op = "refresh"
    /\ ~callers'[c].forced

SendDone(c) == callers[c].op = "send" /\ callers[c].pc = "done"

\* C19 as stated: every sendCommands call sends exactly one remote command
\* request and resolves true iff that request succeeded.
C19_OneRequestPerCall ==
    \A c \in Callers :
        callers[c].op = "send" =>
            /\ callers[c].posts <= 1
            /\ SendDone(c) => /\ callers[c].posts = 1
                              /\ BoolName(callers[c].result) = callers[c].postOk

\* C19, amended: every sendCommands call calls post once; that call sends one
\* remote command request, and at most one more when the first is answered 401
\* and the token refresh succeeds. The call resolves true iff the last request
\* succeeded, and false when it failed.
C19_OneCallOneRetry ==
    \A c \in Callers :
        callers[c].op = "send" =>
            /\ callers[c].posts <= 2
            /\ SendDone(c) => /\ callers[c].posts >= 1
                              /\ BoolName(callers[c].result) = callers[c].postOk

\* A command whose request failed and was reported as false, sent once.
C19_Witness ==
    \E c \in Callers :
        /\ SendDone(c)
        /\ callers[c].posts = 1
        /\ callers[c].postOk = "false"
        /\ callers[c].result = FALSE

\* C20: every step of a sendCommands call, other than its successful
\* completion, leaves online, failureCount, giveUpTime and
\* deviceStatusTimestamp as they were, and the step in which the command fails
\* clears commandInProgress.
C20_FailedCommandFrame ==
    [][\A c \in Callers :
          /\ (/\ callers'[c].op = "send"
              /\ callers'[c] # callers[c]
              /\ ~(callers'[c].pc = "done" /\ callers'[c].postOk = "true"))
             => /\ online' = online
                /\ failureCount' = failureCount
                /\ giveUpTime' = giveUpTime
                /\ deviceStatusTimestamp' = deviceStatusTimestamp
          /\ (/\ callers[c].op = "send" /\ callers[c].pc = "posting"
              /\ callers'[c].pc = "done" /\ callers'[c].postOk = "false")
             => commandInProgress' = FALSE]_vars

\* A command has failed while the cache held a fetched snapshot.
C20_Witness ==
    \E c \in Callers :
        /\ SendDone(c)
        /\ callers[c].postOk = "false"
        /\ callers[c].calledAt = now
        /\ deviceStatusTimestamp # 0
        /\ ~commandInProgress

\* C24: a refreshStatus call that made a remote call resolves true only if
\* that call's response replaced the snapshot and set deviceStatusTimestamp,
\* and resolves false with both unchanged when the remote call failed.
C24_TrueOnlyIfUpdated ==
    [][\A c \in Callers :
          (callers[c].pc = "getting" /\ callers'[c].pc = "done")
          => IF callers'[c].result
             THEN /\ componentStatus' = callers[c].get
                  /\ deviceStatusTimestamp' = now
             ELSE /\ componentStatus' = componentStatus
                  /\ deviceStatusTimestamp' = deviceStatusTimestamp]_vars

\* C33: every sendCommands call and every refreshStatus call returns,
\* whatever other calls are made on the device meanwhile, provided every
\* remote call is answered.
C33_EveryCallReturns ==
    \A c \in Callers : (callers[c].pc \notin {"idle", "done"}) ~> (callers[c].pc = "done")

\* The command requests in flight, and the status fetches that wait for a
\* command or are in flight.
CommandsInFlight == {c \in Callers : callers[c].pc = "posting"}

FetchesPending ==
    {c \in Callers : /\ callers[c].op = "refresh"
                     /\ callers[c].pc \in {"ready", "waiting", "getting"}}

\* C35: commandInProgress is true iff exactly one command request is in
\* flight, and statusQueryInProgress is true iff exactly one status fetch is
\* waiting for commands or in flight.
C35_FlagsMirrorActivity ==
    /\ commandInProgress <=> Cardinality(CommandsInFlight) = 1
    /\ statusQueryInProgress <=> Cardinality(FetchesPending) = 1

\* C34: of two sendCommands calls waiting for the command in flight, the one
\* called first posts first.
C34_WaitersInCallOrder ==
    [][\A c \in QueueCallers, d \in QueueCallers :
          (/\ callers[c].op = "send" /\ callers[c].pc = "waiting"
           /\ callers'[c].pc = "posting"
           /\ callers[d].op = "send" /\ callers[d].pc = "waiting"
           /\ callers'[d].pc = "waiting")
          => callers[c].calledAt <= callers[d].calledAt]_vars

-----------------------------------------------------------------------------
(* Properties of one combination rule *)

\* C25: a combination rule whose required set lies within the remaining
\* capabilities creates exactly one adapter, bound to the required set
\* together with the optional capabilities still remaining, and removes
\* exactly those from the remaining set; any other rule creates no adapter
\* and leaves the remaining set as it was.
C25_RuleCoversRequiredAndOptional ==
    [][lastRule' # lastRule
       => LET entry == sortedComboCapabilityMap[lastRule']
              required == Range(entry.capabilities)
              bound == required
                       \cup (Range(entry.optionalCapabilities) \cap capabilitiesToCover)
          IN IF required \subseteq capabilitiesToCover
             THEN /\ services' = Append(services,
                                        [componentId |-> components[1].componentId,
                                         capabilities |-> bound,
                                         service |-> entry.service])
                  /\ capabilitiesToCover' = capabilitiesToCover \ bound
             ELSE /\ services' = services
                  /\ capabilitiesToCover' = capabilitiesToCover]_vars

\* The air-conditioner rule took its five required capabilities and the two
\* optional ones the component has, and left switchLevel.
C25_Witness ==
    /\ lastRule = 1
    /\ Len(services) = 1
    /\ services[1].service = "AirConditionerService"
    /\ services[1].capabilities =
           {"switch", "airConditionerMode", "airConditionerFanMode",
            "thermostatCoolingSetpoint", "temperatureMeasurement",
            "fanOscillationMode", "relativeHumidityMeasurement"}
    /\ capabilitiesToCover = {"switchLevel"}

-----------------------------------------------------------------------------
(* Properties of polling and device health *)

\* A step of the poll timer's callback.
IsPollTick == tickParity' # tickParity

C13_OfflineExactlyOnce ==
    failedRun > FailureThreshold => (~online /\ offlineTransitions = 1)

\* C15: no remote command request is sent while the device is offline; a
\* command requested then has failed without a request.
C15_NoCommandWhileOffline ==
    /\ ~commandWhileOffline
    /\ \A c \in Callers :
          (callers[c].op = "send" /\ callers[c].posts > 0 /\ callers[c].pc # "done")
          => online

\* C16: a poll tick that fires in webhook mode, while a command is in flight,
\* or less than 20 seconds after the last command completed starts no status
\* read and queues nothing.
C16_TickDropped ==
    [][(/\ IsPollTick
        /\ \/ webhookMode
           \/ commandInProgress
           \/ commandCompletedAt > 0 /\ now - commandCompletedAt < PollQuietTime)
       => /\ callers' = callers
          /\ microtasks' = microtasks
          /\ statusQueryInProgress' = statusQueryInProgress]_vars

\* C26: no operation of the device synchronizer (the health check at
\* construction, a status fetch, a command, a poll tick, a health probe)
\* appends a crash record; only discovery and initialization failures do.
C26_NoCrashRecordPerDevice == [][crashRecords' = crashRecords]_vars

\* C27: no failure inside a poll tick escapes it: a failed status read, a
\* failed target-state read and a failed health probe are handled inside the
\* tick and never surface as an unhandled promise rejection.
C27_NoUnhandledRejection == ~unhandledRejection

\* C32: a device that is not online has giveUpTime set, also when the health
\* check of the constructor found it offline or unreachable, so that the
\* recovery probe of the poll timer applies to it.
C32_OfflineHasGiveUpTime == ~online => giveUpTime > 0

-----------------------------------------------------------------------------
(* Properties of the token store and authorization *)

RefreshesInFlight ==
    monitorRefreshes
    + (IF initialize.pc = "refreshing" THEN 1 ELSE 0)
    + Cardinality({r \in Requests : requests[r].pc = "refreshing"})

\* C4: every successful token refresh, on the monitor, initialize and 401
\* path alike, replaces the token record with the new access token and
\* persists it; a failed refresh leaves the record and the file unchanged.
C4_RefreshReplacesRecord ==
    [][refreshOutcome' # refreshOutcome
          => IF refreshOutcome'.ok
             THEN /\ getAccessToken(tokenData') = refreshOutcome'.token
                  /\ tokenFile' = tokenData'
             ELSE tokenData' = tokenData /\ tokenFile' = tokenFile]_vars

\* C5: a call answered 401 triggers exactly one refresh attempt; after a
\* successful refresh the call is retried exactly once, also when the retry is
\* answered 401 again; when the refresh fails or there is no refresh token the
\* authorization flow is started and the call fails without a retry.
C5_OneRefreshOneRetry ==
    \A r \in Requests :
        LET q == requests[r]
        IN /\ q.refreshes <= 1
           /\ q.retries <= 1
           /\ q.unauthorized >= 1
                => (q._retry /\ (q.refreshes = 1 \/ q.refreshResult = "notoken"))
           /\ q.refreshResult = "ok" => (q.refreshes = 1 /\ q.retries = 1)
           /\ q.refreshResult = "none" => q.retries = 0
           /\ q.refreshResult \in {"fail", "notoken"}
                => /\ q.pc = "failed"
                   /\ q.retries = 0
                   /\ q.startedAuth
                   /\ authFlowStarted
           /\ q.refreshResult = "notoken" => q.refreshes = 0
           /\ q.unauthorized = 2 => (q.retries = 1 /\ q.pc = "failed")

\* A call whose retry was answered 401 as well: one refresh, one retry, failed.
C5_Witness ==
    \E r \in Requests :
        /\ requests[r].unauthorized = 2
        /\ requests[r].refreshes = 1
        /\ requests[r].retries = 1
        /\ requests[r].pc = "failed"

\* C6: at most one token refresh call is in flight in the whole process.
C6_OneRefreshInFlight == RefreshesInFlight <= 1

\* C11: when the crash records at startup make a crash loop, recovery runs:
\* the token record is absent in memory and on disk afterwards (whether or
\* not a file existed, whether or not its removal succeeded), the
\* authorization flow is started, and initialize is not attempted.
C11_RecoveryClearsTokens ==
    [][(launch = "pending" /\ launch' # "pending" /\ isCrashLoopDetected(crashRecords))
          => /\ launch' = "recovered"
             /\ tokenData' = NoToken
             /\ tokenFile' = NoToken
             /\ authFlowStarted'
             /\ initialize' = initialize]_vars

\* C14: once a monitor tick found the access token within the 5-minute
\* margin, no remote call is sent before the token record is replaced, and at
\* most one refresh call of the monitor is in flight.
C14_RefreshBeforeUse ==
    [][/\ \A r \in Requests :
             (requests[r].pc # "sent" /\ requests'[r].pc = "sent") => ~refreshDue
       /\ monitorRefreshes' <= 1]_vars

\* C21: when a refresh call of the monitor fails, the re-authentication flow
\* is started, and no later monitor tick calls the token endpoint again with a
\* refresh token a monitor refresh has already failed with.
C21_NoRetryAfterFailedRefresh ==
    [][/\ (monitorRefreshes' < monitorRefreshes /\ ~refreshOutcome'.ok)
          => authFlowStarted'
       /\ (monitorRefreshes' > monitorRefreshes)
          => getRefreshToken(tokenData) \notin monitorTrail.failed]_vars

\* Device discovery has been entered: withRetry(getOnlineDevices) was called.
DiscoveryEntered == discovery.pc \in {"calling", "delaying", "discovered", "failed"}

\* No call has gone to the token endpoint or to the remote API.
NoRemoteCallYet ==
    /\ tokenCalls = 0
    /\ \A r \in Requests : requests[r].pc = "idle"
    /\ discovery = NoDiscovery

C39_CallbackNeedsIssuedState ==
    LET valid == /\ callback.code
                 /\ callback.state = "issued"
                 /\ callback.expected = "issued"
    IN callback # NoCallback =>
          /\ callback.replaced => valid
          /\ ~valid => (~callback.replaced /\ callback.status = 500)

\* A flow was started and a callback with a code and another state than the
\* issued one was refused.
C39_Witness ==
    /\ callback.code /\ callback.state = "stale" /\ callback.expected = "issued"
    /\ callback.status = 500 /\ ~callback.replaced

\* C38: whenever the TokenRecord in memory has a refresh token, the interval
\* of the refresh monitor is scheduled.
C38_MonitorScheduledWithToken ==
    getRefreshToken(tokenData) # 0 => refreshTimer

\* C37: a start whose device discovery fails, on one error that is not a
\* network error or on all attempts of a network error, appends exactly one
\* entry to the CrashRecord.
C37_OneCrashRecordPerFailedStart ==
    discovery.pc = "failed" => discovery.appended = 1

\* C36: when crash-loop recovery has cleared the TokenRecord and the plugin is
\* started again before the re-authentication completed, the new process
\* starts with no TokenRecord.
C36_RestartAfterRecoveryHasNoToken ==
    [][(/\ launch = "recovered"
        /\ tokenData = NoToken /\ tokenFile = NoToken
        /\ Len(loaded') = Len(loaded) + 1)
       => tokenData' = NoToken]_vars

\* C30: a start loads the token record from the token file when the file
\* holds one; only when it holds none is the record taken from the config,
\* and then it is written to the file at once, so that the next start loads
\* the record the previous start ended with.
C30_LoadedOrPersisted ==
    [][Len(loaded') > Len(loaded)
       => /\ tokenFile # NoToken => (tokenData' = tokenFile /\ tokenFile' = tokenFile)
          /\ (tokenFile = NoToken /\ bootstrap)
             => (tokenData' = ConfigTokenAt(authTime) /\ tokenFile' = tokenData')
          /\ (loaded # <<>> /\ loaded[Len(loaded)] # NoToken)
             => tokenData' = loaded[Len(loaded)]]_vars

-----------------------------------------------------------------------------
(* Properties of startup *)

\* C31: discovery makes at most 3 attempts; an attempt after the first is
\* made only after a network error and a delay of 3 s, then 6 s; an error
\* that is not a network error ends discovery with that attempt; after the
\* last failed attempt the error reaches the handler of didFinishLaunching.
C31_BoundedBackoff ==
    [][/\ discovery'.attempt <= maxRetries
       /\ (discovery'.attempt > discovery.attempt /\ discovery.attempt > 0)
          => /\ discovery.pc = "delaying"
             /\ discovery.errors[discovery.attempt] = "network"
             /\ discovery.delays \in {<<3000>>, <<3000, 6000>>}
             /\ Len(discovery.delays) = discovery.attempt
       /\ \A k \in DOMAIN discovery'.errors :
             discovery'.errors[k] # "network"
             => discovery'.pc = "failed" /\ k = discovery'.attempt
       /\ Len(discovery'.errors) = maxRetries => discovery'.pc = "failed"]_vars

\* Three network errors: delays of 3 s and 6 s, then the handler has the error.
C31_Witness ==
    /\ discovery.pc = "failed"
    /\ discovery.attempt = 3
    /\ discovery.errors = <<"network", "network", "network">>
    /\ discovery.delays = <<3000, 6000>>

-----------------------------------------------------------------------------
(* Properties of processEvent *)

\* A step of processEvent (one that hands over a different event).
IsEventStep == lastEvent' # lastEvent

EventMatches == matchingServices(services, lastEvent'.componentId, lastEvent'.capability)

\* C22 as stated: the event goes to the one adapter bound to its component
\* and capability, or to none if none is bound; the status cache and the
\* flags of the synchronizer are left alone.
C22_EventToTheOneAdapter ==
    [][IsEventStep =>
          /\ \/ EventMatches = {} /\ lastEvent'.to = 0
             \/ EventMatches = {lastEvent'.to}
          /\ UNCHANGED <<deviceVars, statusGet, callers, microtasks>>]_vars

\* C22, amended: the event goes to exactly one adapter, the first created one
\* among those bound to its component and capability, or to none if none is
\* bound; more than one adapter is bound only on the main component of a
\* television, for a television capability. The status cache and the flags of
\* the synchronizer are left alone.
C22_EventToFirstAdapter ==
    [][IsEventStep =>
          /\ \/ EventMatches = {} /\ lastEvent'.to = 0
             \/ /\ lastEvent'.to \in EventMatches
                /\ \A i \in EventMatches : lastEvent'.to <= i
          /\ Cardinality(EventMatches) > 1
             => /\ deviceIsTelevision
                /\ lastEvent'.componentId = "main"
                /\ lastEvent'.capability \in TvCapabilities
                /\ services[lastEvent'.to].service = "TelevisionService"
          /\ UNCHANGED <<deviceVars, statusGet, callers, microtasks>>]_vars

\* A switch event of a television kept with its legacy switch: two adapters
\* are bound, the television adapter got the event.
C22_Witness ==
    /\ lastEvent.to # 0
    /\ services[lastEvent.to].service = "TelevisionService"
    /\ Cardinality(matchingServices(services, lastEvent.componentId,
                                    lastEvent.capability)) = 2

-----------------------------------------------------------------------------
(* Properties of discovery *)

\* C23: a device whose components resolve to no adapter at all is not
\* registered as an accessory.
C23_NoAdaptersNotRegistered ==
    registered = "registered" => services # <<>>

=============================================================================
